---- MODULE Spec2Model ----
(***************************************************************************)
(* The template-driven generation engine of src/content_generator.py:      *)
(* the template registry, body synthesis, metadata derivation, quality     *)
(* scoring, variant generation, and the generation history with its        *)
(* statistics.                                                             *)
(*                                                                         *)
(* Text is modelled as a sequence of Unicode code points (Python's str is  *)
(* a sequence of code points, and len() counts them), so that length,      *)
(* slicing, substring search and concatenation are computed as the code    *)
(* computes them.  Each literal carries its source text in a comment.      *)
(*                                                                         *)
(* Quality scores are kept in integer tenths (0.5 is 5, 1.0 is 10).        *)
(*                                                                         *)
(* src/content_generator.py:479 reads "{topic" without the closing brace   *)
(* inside the f-string of the last branch of _simulate_generation.  CPython*)
(* rejects that replacement field ("SyntaxError: f-string expression part  *)
(* cannot include '#'" on 3.11, "invalid character" on 3.12), and it       *)
(* rejects it when the file is compiled, so that as shipped no operation   *)
(* of the file can run.  The model confines the defect to the branch that  *)
(* holds it: a generate call that is dispatched to that branch ends with a *)
(* SyntaxError before anything is stored, and every other operation        *)
(* behaves as its own code says.                                           *)
(***************************************************************************)
EXTENDS Integers, Sequences, FiniteSets, TLC

(* ---------------------------------------------------------------------- *)
(* Characters the code tests for or inserts.                               *)
(* ---------------------------------------------------------------------- *)
(* "\n", src/content_generator.py:568 *)
NL == 10
(* "#", src/content_generator.py:570 *)
HASH == 35
(* " ", src/content_generator.py:533 *)
SPACE == 32

(* ---------------------------------------------------------------------- *)
(* Replacement fields of the f-strings.  A pattern is a sequence of pieces:*)
(* a piece is a literal run of code points or one of these markers (code   *)
(* points are never negative, so a marker is no literal).                  *)
(* ---------------------------------------------------------------------- *)
(* {topic} *)
FieldTopic == <<-1>>
(* {topic.replace(' ', '')}, src/content_generator.py:423 *)
FieldTopicNoSpace == <<-2>>
(* the unterminated "{topic" of src/content_generator.py:479 *)
FieldMalformed == <<-3>>

(* ---------------------------------------------------------------------- *)
(* Python string operations on code-point sequences.                       *)
(* ---------------------------------------------------------------------- *)
Min(a, b) == IF a <= b THEN a ELSE b

(* sub in s *)
Contains(sub, s) ==
  \E i \in 1..(Len(s) - Len(sub) + 1) : SubSeq(s, i, i + Len(sub) - 1) = sub

(* s[:n] for n >= 0 *)
Prefix(s, n) == SubSeq(s, 1, Min(n, Len(s)))

(* s.replace(c, '') for a one-character c *)
RemoveChar(s, c) == SelectSeq(s, LAMBDA x : x # c)

(* s.replace(old, new) for a non-empty old: leftmost non-overlapping       *)
(* occurrences, scanned left to right.                                     *)
RECURSIVE StrReplace(_, _, _)
StrReplace(s, old, new) ==
  IF Len(s) < Len(old) THEN s
  ELSE IF SubSeq(s, 1, Len(old)) = old
       THEN new \o StrReplace(SubSeq(s, Len(old) + 1, Len(s)), old, new)
       ELSE <<Head(s)>> \o StrReplace(Tail(s), old, new)

(* ''.join(pieces) *)
RECURSIVE Join(_)
Join(pieces) ==
  IF pieces = << >> THEN << >> ELSE Head(pieces) \o Join(Tail(pieces))

(* What one piece of an f-string contributes for a given topic. *)
Interpolate(piece, topic) ==
  IF piece = FieldTopic THEN topic
  ELSE IF piece = FieldTopicNoSpace THEN RemoveChar(topic, SPACE)
  ELSE piece

(* A well-formed f-string pattern evaluated for a topic. *)
FString(pattern, topic) ==
  Join([i \in 1..Len(pattern) |-> Interpolate(pattern[i], topic)])

(* Whether the compiler accepts the pattern. *)
Compiles(pattern) == \A i \in 1..Len(pattern) : pattern[i] # FieldMalformed

(* ---------------------------------------------------------------------- *)
(* Literals of the source.                                                 *)
(* ---------------------------------------------------------------------- *)
(* src/content_generator.py:523: "Tech" *)
TagTech ==
    <<84, 101, 99, 104>>

(* src/content_generator.py:523: "AI" *)
TagAI ==
    <<65, 73>>

(* src/content_generator.py:525: "#好物分享#" *)
TagWeiboShare ==
    <<35, 22909, 29289, 20998, 20139, 35>>

(* src/content_generator.py:525: "#生活日记#" *)
TagWeiboDiary ==
    <<35, 29983, 27963, 26085, 35760, 35>>

(* src/content_generator.py:527: "编程" *)
TagProgramming ==
    <<32534, 31243>>

(* src/content_generator.py:527: "技术" *)
TagTechnology ==
    <<25216, 26415>>

(* src/content_generator.py:536: "#Tech" *)
HashTech ==
    <<35, 84, 101, 99, 104>>

(* src/content_generator.py:536: "#Innovation" *)
HashInnovation ==
    <<35, 73, 110, 110, 111, 118, 97, 116, 105, 111, 110>>

(* src/content_generator.py:536: "#AI" *)
HashAI ==
    <<35, 65, 73>>

(* src/content_generator.py:538: "#tech" *)
HashTechLower ==
    <<35, 116, 101, 99, 104>>

(* src/content_generator.py:538: "#innovation" *)
HashInnovationLower ==
    <<35, 105, 110, 110, 111, 118, 97, 116, 105, 111, 110>>

(* src/content_generator.py:538: "#coding" *)
HashCoding ==
    <<35, 99, 111, 100, 105, 110, 103>>

(* src/content_generator.py:548: "..." *)
Ellipsis ==
    <<46, 46, 46>>

(* src/content_generator.py:551: "\n\n你对这个问题怎么看？" *)
QuestionSuffix ==
    <<10, 10, 20320, 23545, 36825, 20010, 38382, 39064, 24590, 20040, 30475, 65311>>

(* src/content_generator.py:554: "\n\n觉得有用的话，记得点赞收藏！" *)
CallToActionSuffix ==
    <<10, 10, 35273, 24471, 26377, 29992, 30340, 35805, 65292, 35760, 24471, 28857, 36190,
      25910, 34255, 65281>>

(* src/content_generator.py:334: "技术博客" *)
KeyGuideA ==
    <<25216, 26415, 21338, 23458>>

(* src/content_generator.py:334: "技术文章" *)
KeyGuideB ==
    <<25216, 26415, 25991, 31456>>

(* src/content_generator.py:409: "推文" *)
KeyMicroA ==
    <<25512, 25991>>

(* src/content_generator.py:409: "Twitter" *)
KeyMicroB ==
    <<84, 119, 105, 116, 116, 101, 114>>

(* src/content_generator.py:425: "微博" *)
KeyCasual ==
    <<24494, 21338>>

(* src/content_generator.py:439: "职场" *)
KeyNarrativeA ==
    <<32844, 22330>>

(* src/content_generator.py:439: "LinkedIn" *)
KeyNarrativeB ==
    <<76, 105, 110, 107, 101, 100, 73, 110>>

(* src/content_generator.py:291: "/language: English\n" *)
LanguageDirective ==
    <<47, 108, 97, 110, 103, 117, 97, 103, 101, 58, 32, 69, 110, 103, 108, 105, 115, 104,
      10>>

(* src/content_generator.py:335-407: the f-string of this branch, one piece per
   literal run or replacement field, in source order. *)
GuideShape ==
  <<
    (* #  *)
    <<35, 32>>,
    FieldTopic,
    (* 完全指南\n\n## 引言\n\n在当今快速发展的技术世界中， *)
    <<23436, 20840, 25351, 21335, 10, 10, 35, 35, 32, 24341, 35328, 10, 10, 22312, 24403,
      20170, 24555, 36895, 21457, 23637, 30340, 25216, 26415, 19990, 30028, 20013, 65292>>,
    FieldTopic,
    (* 已经成为了一个不可忽视的重要话题。无论你是初学者还是资深开发者，掌握 *)
    <<24050, 32463, 25104, 20026, 20102, 19968, 20010, 19981, 21487, 24573, 35270, 30340,
      37325, 35201, 35805, 39064, 12290, 26080, 35770, 20320, 26159, 21021, 23398, 32773,
      36824, 26159, 36164, 28145, 24320, 21457, 32773, 65292, 25484, 25569>>,
    FieldTopic,
    (* 都将为你的职业生涯带来巨大的帮助。\n\n## 什么是 *)
    <<37117, 23558, 20026, 20320, 30340, 32844, 19994, 29983, 28079, 24102, 26469, 24040,
      22823, 30340, 24110, 21161, 12290, 10, 10, 35, 35, 32, 20160, 20040, 26159>>,
    FieldTopic,
    (* ？\n\n *)
    <<65311, 10, 10>>,
    FieldTopic,
    (* 是[领域]中最具影响力的技术/概念之一。它主要解决以下问题：\n\n- 提高开发效率\n- 降低维护成本\n- 提升系统 *)
    <<26159, 91, 39046, 22495, 93, 20013, 26368, 20855, 24433, 21709, 21147, 30340, 25216,
      26415, 47, 27010, 24565, 20043, 19968, 12290, 23427, 20027, 35201, 35299, 20915,
      20197, 19979, 38382, 39064, 65306, 10, 10, 45, 32, 25552, 39640, 24320, 21457, 25928,
      29575, 10, 45, 32, 38477, 20302, 32500, 25252, 25104, 26412, 10, 45, 32, 25552, 21319,
      31995, 32479, 24615, 33021, 10, 10, 35, 35, 32, 26680, 24515, 21407, 29702, 10, 10>>,
    FieldTopic,
    (* 的核心思想可以概括为三个要点：\n\n### 1. 原理一\n\n详细的原理解释...\n\n### 2. 原理二\n\ *)
    <<30340, 26680, 24515, 24605, 24819, 21487, 20197, 27010, 25324, 20026, 19977, 20010,
      35201, 28857, 65306, 10, 10, 35, 35, 35, 32, 49, 46, 32, 21407, 29702, 19968, 10, 10,
      35814, 32454, 30340, 21407, 29702, 35299, 37322, 46, 46, 46, 10, 10, 35, 35, 35, 32,
      50, 46, 32, 21407, 29702, 20108, 10, 10, 35814, 32454, 30340, 21407, 29702, 35299,
      37322, 46, 46, 46, 10, 10, 35, 35, 35, 32, 51, 46, 32, 21407, 29702, 19977, 10, 10,
      35814, 32454, 30340, 21407, 29702, 35299, 37322, 46, 46, 46, 10, 10, 35, 35, 32,
      23454, 25112, 31034, 20363, 10, 10, 96, 96, 96, 112, 121, 116, 104, 111, 110, 10, 35,
      32>>,
    FieldTopic,
    (* 示例代码\ndef example_function():\n    # 代码示例\n    result = proc *)
    <<31034, 20363, 20195, 30721, 10, 100, 101, 102, 32, 101, 120, 97, 109, 112, 108, 101,
      95, 102, 117, 110, 99, 116, 105, 111, 110, 40, 41, 58, 10, 32, 32, 32, 32, 35, 32,
      20195, 30721, 31034, 20363, 10, 32, 32, 32, 32, 114, 101, 115, 117, 108, 116, 32, 61,
      32, 112, 114, 111, 99, 101, 115, 115, 95, 100, 97, 116, 97, 40, 41, 10, 32, 32, 32,
      32, 114, 101, 116, 117, 114, 110, 32, 114, 101, 115, 117, 108, 116, 10, 96, 96, 96,
      10, 10, 35, 35, 32, 24212, 29992, 22330, 26223, 10, 10>>,
    FieldTopic,
    (* 在实际工作中的应用场景非常广泛：\n\n1. **场景一** - 具体应用...\n2. **场景二** - 具体应用. *)
    <<22312, 23454, 38469, 24037, 20316, 20013, 30340, 24212, 29992, 22330, 26223, 38750,
      24120, 24191, 27867, 65306, 10, 10, 49, 46, 32, 42, 42, 22330, 26223, 19968, 42, 42,
      32, 45, 32, 20855, 20307, 24212, 29992, 46, 46, 46, 10, 50, 46, 32, 42, 42, 22330,
      26223, 20108, 42, 42, 32, 45, 32, 20855, 20307, 24212, 29992, 46, 46, 46, 10, 51, 46,
      32, 42, 42, 22330, 26223, 19977, 42, 42, 32, 45, 32, 20855, 20307, 24212, 29992, 46,
      46, 46, 10, 10, 35, 35, 32, 26368, 20339, 23454, 36341, 10, 10, 22522, 20110, 22810,
      24180, 30340, 32463, 39564, 24635, 32467, 65292, 20197, 19979, 26159>>,
    FieldTopic,
    (* 的最佳实践：\n\n1. **实践一** - 具体建议\n2. **实践二** - 具体建议\n3. **实践三** - *)
    <<30340, 26368, 20339, 23454, 36341, 65306, 10, 10, 49, 46, 32, 42, 42, 23454, 36341,
      19968, 42, 42, 32, 45, 32, 20855, 20307, 24314, 35758, 10, 50, 46, 32, 42, 42, 23454,
      36341, 20108, 42, 42, 32, 45, 32, 20855, 20307, 24314, 35758, 10, 51, 46, 32, 42, 42,
      23454, 36341, 19977, 42, 42, 32, 45, 32, 20855, 20307, 24314, 35758, 10, 10, 35, 35,
      32, 24120, 35265, 38382, 39064, 10, 10, 35, 35, 35, 32, 81, 49, 58, 32>>,
    FieldTopic,
    (* 学习曲线陡峭吗？\n\nA: 入门其实很简单，深入需要时间...\n\n### Q2: 需要什么基础？\n\nA: 建议 *)
    <<23398, 20064, 26354, 32447, 38497, 23789, 21527, 65311, 10, 10, 65, 58, 32, 20837,
      38376, 20854, 23454, 24456, 31616, 21333, 65292, 28145, 20837, 38656, 35201, 26102,
      38388, 46, 46, 46, 10, 10, 35, 35, 35, 32, 81, 50, 58, 32, 38656, 35201, 20160, 20040,
      22522, 30784, 65311, 10, 10, 65, 58, 32, 24314, 35758, 20808, 25484, 25569, 46, 46,
      46, 10, 10, 35, 35, 32, 24635, 32467, 10, 10>>,
    FieldTopic,
    (* 是一个值得深入学习的技术/概念。希望本文能帮助你更好地理解和应用 *)
    <<26159, 19968, 20010, 20540, 24471, 28145, 20837, 23398, 20064, 30340, 25216, 26415,
      47, 27010, 24565, 12290, 24076, 26395, 26412, 25991, 33021, 24110, 21161, 20320,
      26356, 22909, 22320, 29702, 35299, 21644, 24212, 29992>>,
    FieldTopic,
    (* 。\n\n---\n\n💬 你对 *)
    <<12290, 10, 10, 45, 45, 45, 10, 10, 128172, 32, 20320, 23545>>,
    FieldTopic,
    (* 有什么看法？欢迎在评论区交流！ *)
    <<26377, 20160, 20040, 30475, 27861, 65311, 27426, 36814, 22312, 35780, 35770, 21306,
      20132, 27969, 65281>>
  >>

(* src/content_generator.py:410-423: the f-string of this branch, one piece per
   literal run or replacement field, in source order. *)
MicroShape ==
  <<
    (* 🧵 关于 *)
    <<129525, 32, 20851, 20110>>,
    FieldTopic,
    (* ，分享几个关键洞察：\n\n *)
    <<65292, 20998, 20139, 20960, 20010, 20851, 38190, 27934, 23519, 65306, 10, 10>>,
    FieldTopic,
    (* 正在改变我们工作的方式。\n\n核心观点：\n→ 效率提升300%\n→ 成本降低50%\n→ 体验翻倍\n\n关键数据 *)
    <<27491, 22312, 25913, 21464, 25105, 20204, 24037, 20316, 30340, 26041, 24335, 12290,
      10, 10, 26680, 24515, 35266, 28857, 65306, 10, 8594, 32, 25928, 29575, 25552, 21319,
      51, 48, 48, 37, 10, 8594, 32, 25104, 26412, 38477, 20302, 53, 48, 37, 10, 8594, 32,
      20307, 39564, 32763, 20493, 10, 10, 20851, 38190, 25968, 25454, 25903, 25345, 36825,
      19968, 32467, 35770, 12290, 10, 10, 20320, 26377, 20160, 20040, 32463, 39564, 65311,
      128071, 10, 10, 35, 84, 101, 99, 104, 32, 35>>,
    FieldTopicNoSpace,
    (*  #AI *)
    <<32, 35, 65, 73>>
  >>

(* src/content_generator.py:426-437: the f-string of this branch, one piece per
   literal run or replacement field, in source order. *)
CasualShape ==
  <<
    (* 救命！姐妹们！ *)
    <<25937, 21629, 65281, 22992, 22969, 20204, 65281>>,
    FieldTopic,
    (* 真的绝了！！！🙀\n\n最近在研究 *)
    <<30495, 30340, 32477, 20102, 65281, 65281, 65281, 128576, 10, 10, 26368, 36817, 22312,
      30740, 31350>>,
    FieldTopic,
    (* ，没想到效果这么惊艳！\n\n✨ 具体感受：\n- 操作简单\n- 效果明显\n- 性价比高\n\n姐妹们一定要试试！冲 *)
    <<65292, 27809, 24819, 21040, 25928, 26524, 36825, 20040, 24778, 33395, 65281, 10, 10,
      10024, 32, 20855, 20307, 24863, 21463, 65306, 10, 45, 32, 25805, 20316, 31616, 21333,
      10, 45, 32, 25928, 26524, 26126, 26174, 10, 45, 32, 24615, 20215, 27604, 39640, 10,
      10, 22992, 22969, 20204, 19968, 23450, 35201, 35797, 35797, 65281, 20914, 20914,
      20914, 65281, 128170, 10, 10, 35>>,
    FieldTopic,
    (*  #好物分享 #生活技巧 *)
    <<32, 35, 22909, 29289, 20998, 20139, 32, 35, 29983, 27963, 25216, 24039>>
  >>

(* src/content_generator.py:440-460: the f-string of this branch, one piece per
   literal run or replacement field, in source order. *)
NarrativeShape ==
  <<
    (* 💼 关于 *)
    <<128188, 32, 20851, 20110>>,
    FieldTopic,
    (* ，分享一段真实的职场经历。\n\n3年前，我对 *)
    <<65292, 20998, 20139, 19968, 27573, 30495, 23454, 30340, 32844, 22330, 32463, 21382,
      12290, 10, 10, 51, 24180, 21069, 65292, 25105, 23545>>,
    FieldTopic,
    (* 一无所知。\n2年前，我开始接触并学习。\n现在， *)
    <<19968, 26080, 25152, 30693, 12290, 10, 50, 24180, 21069, 65292, 25105, 24320, 22987,
      25509, 35302, 24182, 23398, 20064, 12290, 10, 29616, 22312, 65292>>,
    FieldTopic,
    (* 已经成为我工作中最重要的技能之一。\n\n关键转变发生在：\n\n📌 第一次认知突破\n📌 第一次实践尝试  \n📌 第 *)
    <<24050, 32463, 25104, 20026, 25105, 24037, 20316, 20013, 26368, 37325, 35201, 30340,
      25216, 33021, 20043, 19968, 12290, 10, 10, 20851, 38190, 36716, 21464, 21457, 29983,
      22312, 65306, 10, 10, 128204, 32, 31532, 19968, 27425, 35748, 30693, 31361, 30772, 10,
      128204, 32, 31532, 19968, 27425, 23454, 36341, 23581, 35797, 32, 32, 10, 128204, 32,
      31532, 19968, 27425, 33719, 24471, 35748, 21487, 10, 10, 32473, 32844, 22330, 26032,
      20154, 30340, 24314, 35758, 65306, 10, 10, 49, 65039, 8419, 32, 19981, 35201, 24597,
      29359, 38169, 10, 50, 65039, 8419, 32, 25345, 32493, 23398, 20064, 10, 51, 65039,
      8419, 32, 24314, 31435, 20010, 20154, 21697, 29260, 10, 10>>,
    FieldTopic,
    (* 的时代已经到来，你准备好了吗？\n\n#职场成长 #技能提升 # *)
    <<30340, 26102, 20195, 24050, 32463, 21040, 26469, 65292, 20320, 20934, 22791, 22909,
      20102, 21527, 65311, 10, 10, 35, 32844, 22330, 25104, 38271, 32, 35, 25216, 33021,
      25552, 21319, 32, 35>>,
    FieldTopic,
    (*  *)
    << >>
  >>

(* src/content_generator.py:463-489: the f-string of this branch, one piece per
   literal run or replacement field, in source order. *)
FallbackShape ==
  <<
    (* 关于 *)
    <<20851, 20110>>,
    FieldTopic,
    (* 的深度分析：\n\n *)
    <<30340, 28145, 24230, 20998, 26512, 65306, 10, 10>>,
    FieldTopic,
    (* 是当前最受关注的话题之一。本文将从多个角度进行全面解读。\n\n## 为什么 *)
    <<26159, 24403, 21069, 26368, 21463, 20851, 27880, 30340, 35805, 39064, 20043, 19968,
      12290, 26412, 25991, 23558, 20174, 22810, 20010, 35282, 24230, 36827, 34892, 20840,
      38754, 35299, 35835, 12290, 10, 10, 35, 35, 32, 20026, 20160, 20040>>,
    FieldTopic,
    (* 如此重要？\n\n- 技术创新驱动\n- 市场需求旺盛\n- 应用场景广泛\n\n## 核心观点\n\n *)
    <<22914, 27492, 37325, 35201, 65311, 10, 10, 45, 32, 25216, 26415, 21019, 26032, 39537,
      21160, 10, 45, 32, 24066, 22330, 38656, 27714, 26106, 30427, 10, 45, 32, 24212, 29992,
      22330, 26223, 24191, 27867, 10, 10, 35, 35, 32, 26680, 24515, 35266, 28857, 10, 10>>,
    FieldTopic,
    (* 的核心价值在于...\n\n## 发展趋势\n\n未来 *)
    <<30340, 26680, 24515, 20215, 20540, 22312, 20110, 46, 46, 46, 10, 10, 35, 35, 32,
      21457, 23637, 36235, 21183, 10, 10, 26410, 26469>>,
    FieldMalformed,
    (* topic将朝着以下方向发展：\n\n→ 更加智能化\n→ 更加普及化\n→ 更加个性化\n\n## 结论\n\n *)
    <<116, 111, 112, 105, 99, 23558, 26397, 30528, 20197, 19979, 26041, 21521, 21457, 23637,
      65306, 10, 10, 8594, 32, 26356, 21152, 26234, 33021, 21270, 10, 8594, 32, 26356,
      21152, 26222, 21450, 21270, 10, 8594, 32, 26356, 21152, 20010, 24615, 21270, 10, 10,
      35, 35, 32, 32467, 35770, 10, 10>>,
    FieldTopic,
    (* 值得每个人关注和学习。\n\n你对 *)
    <<20540, 24471, 27599, 20010, 20154, 20851, 27880, 21644, 23398, 20064, 12290, 10, 10,
      20320, 23545>>,
    FieldTopic,
    (* 有什么看法？ *)
    <<26377, 20160, 20040, 30475, 27861, 65311>>
  >>

(* src/content_generator.py:494-500: the title patterns of ContentType.ARTICLE *)
Titles_ARTICLE ==
  <<
    << (* 关于 *) <<20851, 20110>>, FieldTopic, (* ，你需要知道的一切 *) <<65292, 20320, 38656, 35201, 30693, 36947, 30340, 19968, 20999>> >>,
    << FieldTopic, (* 完全指南：从入门到精通 *) <<23436, 20840, 25351, 21335, 65306, 20174, 20837, 38376, 21040, 31934, 36890>> >>,
    << (* 为什么 *) <<20026, 20160, 20040>>, FieldTopic, (* 如此重要？ *) <<22914, 27492, 37325, 35201, 65311>> >>,
    << FieldTopic, (* 的终极解答 *) <<30340, 32456, 26497, 35299, 31572>> >>,
    << (* 深入理解 *) <<28145, 20837, 29702, 35299>>, FieldTopic >>
  >>

(* src/content_generator.py:501-506: the title patterns of ContentType.POST *)
Titles_POST ==
  <<
    << (* 关于 *) <<20851, 20110>>, FieldTopic, (* 的思考 *) <<30340, 24605, 32771>> >>,
    << FieldTopic, (* ：我的几点看法 *) <<65306, 25105, 30340, 20960, 28857, 30475, 27861>> >>,
    << (* 聊聊 *) <<32842, 32842>>, FieldTopic >>,
    << (* 关于 *) <<20851, 20110>>, FieldTopic, (* ，分享给需要的人 *) <<65292, 20998, 20139, 32473, 38656, 35201, 30340, 20154>> >>
  >>

(* src/content_generator.py:507-512: the title patterns of ContentType.AD_COPY *)
Titles_AD_COPY ==
  <<
    << (* 限时福利！ *) <<38480, 26102, 31119, 21033, 65281>>, FieldTopic, (* 免费领！ *) <<20813, 36153, 39046, 65281>> >>,
    << (* 发现了 *) <<21457, 29616, 20102>>, FieldTopic, (* 的神仙用法！ *) <<30340, 31070, 20185, 29992, 27861, 65281>> >>,
    << (* 后悔没早点知道的 *) <<21518, 24724, 27809, 26089, 28857, 30693, 36947, 30340>>, FieldTopic, (* 技巧！ *) <<25216, 24039, 65281>> >>,
    << FieldTopic, (* ，让生活更美好！ *) <<65292, 35753, 29983, 27963, 26356, 32654, 22909, 65281>> >>
  >>


(* src/content_generator.py:77-100: ContentTemplate blog/article, name "技术博客文章" *)
BlogArticle ==
  [ name |->
      <<25216, 26415, 21338, 23458, 25991, 31456>>,
    platform |-> "blog",
    content_type |-> "article",
    (* prompt: "/role: 资深技术博主\n/tone: 专业但易懂\n/length: 1500-3000字\ ... \n请撰写一篇关于{topic}的技术文章。 *)
    prompt |->
      <<34, 47, 114, 111, 108, 101, 58, 32, 36164, 28145, 25216, 26415, 21338, 20027, 10,
        47, 116, 111, 110, 101, 58, 32, 19987, 19994, 20294, 26131, 25026, 10, 47, 108, 101,
        110, 103, 116, 104, 58, 32, 49, 53, 48, 48, 45, 51, 48, 48, 48, 23383, 10, 47, 102,
        111, 114, 109, 97, 116, 58, 32, 10, 45, 32, 24341, 20154, 20837, 32988, 30340,
        24320, 22836, 10, 45, 32, 28165, 26224, 30340, 32467, 26500, 10, 45, 32, 20195,
        30721, 31034, 20363, 10, 45, 32, 23454, 36341, 24314, 35758, 10, 45, 32, 24635,
        32467, 23637, 26395, 10, 10, 35831, 25776, 20889, 19968, 31687, 20851, 20110, 123,
        116, 111, 112, 105, 99, 125, 30340, 25216, 26415, 25991, 31456, 12290>>,
    variables |-> << <<116, 111, 112, 105, 99>> (* topic *) >>,
    min_length |-> 1500,
    max_length |-> 3000,
    tone |-> "professional",
    examples |->
      << (* Python异步编程完全指南 *)
         <<80, 121, 116, 104, 111, 110, 24322, 27493, 32534, 31243, 23436, 20840, 25351,
           21335>>,
         (* 微服务架构实战心得 *)
         <<24494, 26381, 21153, 26550, 26500, 23454, 25112, 24515, 24471>> >> ]

(* src/content_generator.py:103-125: ContentTemplate twitter/post, name "技术分享推文" *)
TwitterPost ==
  [ name |->
      <<25216, 26415, 20998, 20139, 25512, 25991>>,
    platform |-> "twitter",
    content_type |-> "post",
    (* prompt: "/role: 技术专家\n/tone: 简洁有力\n/length: 200-280字符\n/fo ... A互动\n\n分享关于{topic}的见解： *)
    prompt |->
      <<34, 47, 114, 111, 108, 101, 58, 32, 25216, 26415, 19987, 23478, 10, 47, 116, 111,
        110, 101, 58, 32, 31616, 27905, 26377, 21147, 10, 47, 108, 101, 110, 103, 116, 104,
        58, 32, 50, 48, 48, 45, 50, 56, 48, 23383, 31526, 10, 47, 102, 111, 114, 109, 97,
        116, 58, 10, 45, 32, 26680, 24515, 35266, 28857, 10, 45, 32, 31616, 35201, 35299,
        37322, 10, 45, 32, 49, 45, 50, 20010, 20195, 30721, 29255, 27573, 25110, 25968,
        25454, 10, 45, 32, 67, 84, 65, 20114, 21160, 10, 10, 20998, 20139, 20851, 20110,
        123, 116, 111, 112, 105, 99, 125, 30340, 35265, 35299, 65306>>,
    variables |-> << <<116, 111, 112, 105, 99>> (* topic *) >>,
    min_length |-> 100,
    max_length |-> 280,
    tone |-> "engaging",
    examples |->
      << (* 🧵 Python 技巧 #1: *)
         <<129525, 32, 80, 121, 116, 104, 111, 110, 32, 25216, 24039, 32, 35, 49, 58>>,
         (* 刚学到的... *)
         <<21018, 23398, 21040, 30340, 46, 46, 46>> >> ]

(* src/content_generator.py:126-148: ContentTemplate twitter/headline, name "病毒式标题" *)
TwitterHeadline ==
  [ name |->
      <<30149, 27602, 24335, 26631, 39064>>,
    platform |-> "twitter",
    content_type |-> "headline",
    (* prompt: "/role: 标题党大师\n/tone: 吸引眼球\n/length: 80-100字符\n/te ... n\n为"{topic}"创作5个爆款标题： *)
    prompt |->
      <<34, 47, 114, 111, 108, 101, 58, 32, 26631, 39064, 20826, 22823, 24072, 10, 47, 116,
        111, 110, 101, 58, 32, 21560, 24341, 30524, 29699, 10, 47, 108, 101, 110, 103, 116,
        104, 58, 32, 56, 48, 45, 49, 48, 48, 23383, 31526, 10, 47, 116, 101, 99, 104, 110,
        105, 113, 117, 101, 115, 58, 10, 45, 32, 25968, 23383, 20855, 20307, 21270, 10, 45,
        32, 30171, 28857, 35299, 20915, 10, 45, 32, 21453, 24120, 35782, 10, 45, 32, 32039,
        36843, 24863, 10, 10, 20026, 34, 123, 116, 111, 112, 105, 99, 125, 34, 21019, 20316,
        53, 20010, 29190, 27454, 26631, 39064, 65306>>,
    variables |-> << <<116, 111, 112, 105, 99>> (* topic *) >>,
    min_length |-> 50,
    max_length |-> 100,
    tone |-> "clickbait",
    examples |->
      << (* 7个让你效率翻倍的Python技巧 *)
         <<55, 20010, 35753, 20320, 25928, 29575, 32763, 20493, 30340, 80, 121, 116, 104,
           111, 110, 25216, 24039>>,
         (* 这个误区让90%的程序员中招 *)
         <<36825, 20010, 35823, 21306, 35753, 57, 48, 37, 30340, 31243, 24207, 21592, 20013,
           25307>> >> ]

(* src/content_generator.py:151-173: ContentTemplate weibo/post, name "微博推广文案" *)
WeiboPost ==
  [ name |->
      <<24494, 21338, 25512, 24191, 25991, 26696>>,
    platform |-> "weibo",
    content_type |-> "post",
    (* prompt: "/role: 生活方式博主\n/tone: 亲切有趣\n/length: 100-200字\n/e ... 题标签\n\n分享关于{topic}的感受： *)
    prompt |->
      <<34, 47, 114, 111, 108, 101, 58, 32, 29983, 27963, 26041, 24335, 21338, 20027, 10,
        47, 116, 111, 110, 101, 58, 32, 20146, 20999, 26377, 36259, 10, 47, 108, 101, 110,
        103, 116, 104, 58, 32, 49, 48, 48, 45, 50, 48, 48, 23383, 10, 47, 101, 108, 101,
        109, 101, 110, 116, 115, 58, 10, 45, 32, 28909, 28857, 32467, 21512, 10, 45, 32,
        20010, 20154, 25925, 20107, 10, 45, 32, 36731, 26494, 24189, 40664, 10, 45, 32,
        35805, 39064, 26631, 31614, 10, 10, 20998, 20139, 20851, 20110, 123, 116, 111, 112,
        105, 99, 125, 30340, 24863, 21463, 65306>>,
    variables |-> << <<116, 111, 112, 105, 99>> (* topic *) >>,
    min_length |-> 50,
    max_length |-> 200,
    tone |-> "casual",
    examples |->
      << (* 救命！这个真的绝了！ *)
         <<25937, 21629, 65281, 36825, 20010, 30495, 30340, 32477, 20102, 65281>>,
         (* 姐妹们快看过来！！ *)
         <<22992, 22969, 20204, 24555, 30475, 36807, 26469, 65281, 65281>> >> ]

(* src/content_generator.py:176-198: ContentTemplate linkedin/post, name "职场洞察" *)
LinkedinPost ==
  [ name |->
      <<32844, 22330, 27934, 23519>>,
    platform |-> "linkedin",
    content_type |-> "post",
    (* prompt: "/role: 职场导师\n/tone: 专业真诚\n/length: 800-1500字符\n/s ... 议\n\n分享关于{topic}的职场心得： *)
    prompt |->
      <<34, 47, 114, 111, 108, 101, 58, 32, 32844, 22330, 23548, 24072, 10, 47, 116, 111,
        110, 101, 58, 32, 19987, 19994, 30495, 35802, 10, 47, 108, 101, 110, 103, 116, 104,
        58, 32, 56, 48, 48, 45, 49, 53, 48, 48, 23383, 31526, 10, 47, 115, 116, 114, 117,
        99, 116, 117, 114, 101, 58, 10, 45, 32, 38382, 39064, 24341, 20837, 10, 45, 32,
        20146, 36523, 32463, 21382, 10, 45, 32, 26041, 27861, 35770, 10, 45, 32, 34892,
        21160, 24314, 35758, 10, 10, 20998, 20139, 20851, 20110, 123, 116, 111, 112, 105,
        99, 125, 30340, 32844, 22330, 24515, 24471, 65306>>,
    variables |-> << <<116, 111, 112, 105, 99>> (* topic *) >>,
    min_length |-> 500,
    max_length |-> 1500,
    tone |-> "professional",
    examples |->
      << (* 5年职场教会我的 *)
         <<53, 24180, 32844, 22330, 25945, 20250, 25105, 30340>>,
         (* 关于晋升那些事 *)
         <<20851, 20110, 26187, 21319, 37027, 20123, 20107>> >> ]

(* src/content_generator.py:201-223: ContentTemplate zhihu/article, name "知乎回答/文章" *)
ZhihuArticle ==
  [ name |->
      <<30693, 20046, 22238, 31572, 47, 25991, 31456>>,
    platform |-> "zhihu",
    content_type |-> "article",
    (* prompt: "/role: 领域专家\n/tone: 理性分析\n/length: 1000-5000字\n/f ...  案例支撑\n\n回答：{question} *)
    prompt |->
      <<34, 47, 114, 111, 108, 101, 58, 32, 39046, 22495, 19987, 23478, 10, 47, 116, 111,
        110, 101, 58, 32, 29702, 24615, 20998, 26512, 10, 47, 108, 101, 110, 103, 116, 104,
        58, 32, 49, 48, 48, 48, 45, 53, 48, 48, 48, 23383, 10, 47, 102, 111, 114, 109, 97,
        116, 58, 10, 45, 32, 38382, 39064, 25286, 35299, 10, 45, 32, 21407, 22240, 20998,
        26512, 10, 45, 32, 35299, 20915, 26041, 26696, 10, 45, 32, 26696, 20363, 25903,
        25745, 10, 10, 22238, 31572, 65306, 123, 113, 117, 101, 115, 116, 105, 111, 110,
        125>>,
    variables |-> << <<113, 117, 101, 115, 116, 105, 111, 110>> (* question *) >>,
    min_length |-> 500,
    max_length |-> 5000,
    tone |-> "analytical",
    examples |->
      << (* 为什么Python这么流行？ *)
         <<20026, 20160, 20040, 80, 121, 116, 104, 111, 110, 36825, 20040, 27969, 34892,
           65311>>,
         (* 如何入门机器学习？ *)
         <<22914, 20309, 20837, 38376, 26426, 22120, 23398, 20064, 65311>> >> ]

(* ---------------------------------------------------------------------- *)
(* The enumerations, in declaration order.  A member is its name and value.*)
(* ---------------------------------------------------------------------- *)
Platform ==
  << [name |-> "BLOG",      value |-> "blog"],
     [name |-> "TWITTER",   value |-> "twitter"],
     [name |-> "INSTAGRAM", value |-> "instagram"],
     [name |-> "LINKEDIN",  value |-> "linkedin"],
     [name |-> "WEIBO",     value |-> "weibo"],
     [name |-> "ZHIHU",     value |-> "zhihu"],
     [name |-> "MEDIUM",    value |-> "medium"] >>

ContentType ==
  << [name |-> "ARTICLE",      value |-> "article"],
     [name |-> "POST",         value |-> "post"],
     [name |-> "CAPTION",      value |-> "caption"],
     [name |-> "AD_COPY",      value |-> "ad_copy"],
     [name |-> "PRODUCT_DESC", value |-> "product_description"],
     [name |-> "HEADLINE",     value |-> "headline"],
     [name |-> "SUMMARY",      value |-> "summary"] >>

Members(enum) == {enum[i] : i \in DOMAIN enum}

(* Platform.TWITTER and the like *)
Member(enum, name) == CHOOSE m \in Members(enum) : m.name = name

(* ---------------------------------------------------------------------- *)
(* Python dict as an insertion-ordered sequence of [key, value] items.     *)
(* ---------------------------------------------------------------------- *)
EmptyDict == << >>

None == [none |-> TRUE]

DictKeys(d) == {d[i].key : i \in DOMAIN d}

(* d.get(k, default) *)
DictGet(d, k, default) ==
  IF k \in DictKeys(d)
  THEN d[CHOOSE i \in DOMAIN d : d[i].key = k /\ \A j \in DOMAIN d : d[j].key = k => j <= i].value
  ELSE default

(* Platform(value), ContentType(value): the member with that value *)
ByValue(enum, value) == CHOOSE m \in Members(enum) : m.value = value

(* The template library as it would be if zhihu/article declared "topic",  *)
(* the variable of the five other templates, for its {question} prompt.    *)
TemplatesZhihuByTopic ==
  << [key |-> "blog",     value |-> << [key |-> "article",  value |-> BlogArticle] >>],
     [key |-> "twitter",  value |-> << [key |-> "post",     value |-> TwitterPost],
                                       [key |-> "headline", value |-> TwitterHeadline] >>],
     [key |-> "weibo",    value |-> << [key |-> "post",     value |-> WeiboPost] >>],
     [key |-> "linkedin", value |-> << [key |-> "post",     value |-> LinkedinPost] >>],
     [key |-> "zhihu",    value |-> << [key |-> "article",
         value |-> [ZhihuArticle EXCEPT !.variables = BlogArticle.variables]] >>] >>

(* The template library: platform value -> content type value -> template. *)
TEMPLATES ==
  << [key |-> "blog",     value |-> << [key |-> "article",  value |-> BlogArticle] >>],
     [key |-> "twitter",  value |-> << [key |-> "post",     value |-> TwitterPost],
                                       [key |-> "headline", value |-> TwitterHeadline] >>],
     [key |-> "weibo",    value |-> << [key |-> "post",     value |-> WeiboPost] >>],
     [key |-> "linkedin", value |-> << [key |-> "post",     value |-> LinkedinPost] >>],
     [key |-> "zhihu",    value |-> << [key |-> "article",  value |-> ZhihuArticle] >>] >>

(* _get_platform_icon: the icons dict, keyed by member name *)
Icons ==
  << [key |-> "BLOG",      value |-> <<128221>>],
     [key |-> "TWITTER",   value |-> <<128038>>],
     [key |-> "INSTAGRAM", value |-> <<128247>>],
     [key |-> "LINKEDIN",  value |-> <<128188>>],
     [key |-> "WEIBO",     value |-> <<128313>>],
     [key |-> "ZHIHU",     value |-> <<30693, 20046>>],
     [key |-> "MEDIUM",    value |-> <<128240>>] >>

(* the default icon of _get_platform_icon *)
DefaultIcon == <<128196>>

(* ---------------------------------------------------------------------- *)
(* Bounds and input sets of the model.                                     *)
(* ---------------------------------------------------------------------- *)
(* the longest generation history explored *)
MaxHistory == 2
(* the longest topic of the enumerated topics *)
MaxTopicLen == 2

(* "Async Patterns", the topic of the specification's examples *)
AsyncPatterns == <<65, 115, 121, 110, 99, 32, 80, 97, 116, 116, 101, 114, 110, 115>>

(* every text of at most n characters over the given characters *)
RECURSIVE Texts(_, _)
Texts(chars, n) ==
  IF n = 0 THEN {<< >>}
  ELSE LET shorter == Texts(chars, n - 1)
       IN  shorter \cup {Append(s, c) : s \in shorter, c \in chars}

(* topics of the engine runs, and of the helpers called on their own *)
Topics == {AsyncPatterns}
(* the characters of the enumerated topics: "a", " " and "#" *)
TopicChars == {97, SPACE, HASH}
ShortTopics == Texts(TopicChars, MaxTopicLen)

VARIABLES
  templates,            \* self.templates.TEMPLATES, the registry
  generation_history,   \* self.generation_history
  quality_scores,       \* self.quality_scores, in tenths
  clock,                \* the instant the next datetime.now() returns
  ret,                  \* what the last finished call returned or raised
  succeeded,            \* what the caller got back from each call that returned
  writer,               \* a generate_content call under way in another thread
  reader,               \* a get_statistics call under way in another thread
  probe,                \* a helper called on its own: its arguments and result
  db,                   \* db of the API module: its contents and accounts
  api                   \* how far the API module has got: its load, then serving

vars == <<templates, generation_history, quality_scores, clock, ret, succeeded,
          writer, reader, probe, db, api>>

Idle == [pc |-> "idle"]

(* ---------------------------------------------------------------------- *)
(* Body synthesis.                                                         *)
(* ---------------------------------------------------------------------- *)
(* Branch as it would be with the test of line 425 made before that of     *)
(* line 409.                                                               *)
BranchCasualFirst(template) ==
  IF Contains(KeyGuideA, template.name) \/ Contains(KeyGuideB, template.name)
  THEN "guide"
  ELSE IF Contains(KeyCasual, template.name)
  THEN "casual"
  ELSE IF Contains(KeyMicroA, template.name) \/ Contains(KeyMicroB, template.name)
  THEN "micro"
  ELSE IF Contains(KeyNarrativeA, template.name) \/ Contains(KeyNarrativeB, template.name)
  THEN "narrative"
  ELSE "fallback"

(* the branch _simulate_generation takes, decided by the template's name *)
Branch(template) ==
  IF Contains(KeyGuideA, template.name) \/ Contains(KeyGuideB, template.name)
  THEN "guide"
  ELSE IF Contains(KeyMicroA, template.name) \/ Contains(KeyMicroB, template.name)
  THEN "micro"
  ELSE IF Contains(KeyCasual, template.name)
  THEN "casual"
  ELSE IF Contains(KeyNarrativeA, template.name) \/ Contains(KeyNarrativeB, template.name)
  THEN "narrative"
  ELSE "fallback"

ShapeOf(branch) ==
  CASE branch = "guide"     -> GuideShape
    [] branch = "micro"     -> MicroShape
    [] branch = "casual"    -> CasualShape
    [] branch = "narrative" -> NarrativeShape
    [] OTHER                -> FallbackShape

(* _simulate_generation(prompt, template, topic): the text of the branch,  *)
(* or the error of a branch whose f-string does not compile.  The prompt   *)
(* is a parameter the body never reads.                                    *)
_simulate_generation(prompt, template, topic) ==
  LET shape == ShapeOf(Branch(template))
  IN  IF Compiles(shape)
      THEN [raised |-> "none", value |-> FString(shape, topic)]
      ELSE [raised |-> "SyntaxError", value |-> << >>]

(* the prompt of generate_content, lines 289-291 *)
BuildPrompt(template, topic, language) ==
  LET field  == <<123>> \o template.variables[1] \o <<125>>
      prompt == StrReplace(template.prompt, field, topic)
  IN  IF language = "en" THEN LanguageDirective \o prompt ELSE prompt

(* ---------------------------------------------------------------------- *)
(* Metadata.                                                               *)
(* ---------------------------------------------------------------------- *)
(* the titles dict of _generate_title, keyed by member name *)
TitlePatterns ==
  << [key |-> "ARTICLE", value |-> Titles_ARTICLE],
     [key |-> "POST",    value |-> Titles_POST],
     [key |-> "AD_COPY", value |-> Titles_AD_COPY] >>

(* titles.get(content_type, titles[ContentType.ARTICLE]) *)
TitleChoices(content_type) ==
  DictGet(TitlePatterns, content_type.name, DictGet(TitlePatterns, "ARTICLE", None))

(* _generate_title with random.choice picking the element at index pick *)
_generate_title(topic, content_type, pick) ==
  FString(TitleChoices(content_type)[pick], topic)

_generate_tags(topic, platform) ==
  IF platform = Member(Platform, "TWITTER")
  THEN <<TagTech, TagAI, RemoveChar(topic, SPACE)>>
  ELSE IF platform = Member(Platform, "WEIBO")
  THEN <<<<HASH>> \o topic \o <<HASH>>, TagWeiboShare, TagWeiboDiary>>
  ELSE IF platform = Member(Platform, "ZHIHU")
  THEN <<TagProgramming, TagTechnology, RemoveChar(topic, SPACE)>>
  ELSE <<topic>>

(* the cap of tags[:5] *)
HashtagCap == 5

(* _generate_hashtags as it would be with the topic used as it comes. *)
_generate_hashtags_unstripped(topic, platform) ==
  LET tags == << <<HASH>> \o topic \o <<HASH>> >>
      more == IF platform = Member(Platform, "TWITTER")
              THEN <<HashTech, HashInnovation, HashAI>>
              ELSE IF platform = Member(Platform, "INSTAGRAM")
              THEN <<HashTechLower, HashInnovationLower, HashCoding>>
              ELSE << >>
  IN  Prefix(tags \o more, HashtagCap)

_generate_hashtags(topic, platform) ==
  LET tags == << <<HASH>> \o RemoveChar(topic, SPACE) \o <<HASH>> >>
      more == IF platform = Member(Platform, "TWITTER")
              THEN <<HashTech, HashInnovation, HashAI>>
              ELSE IF platform = Member(Platform, "INSTAGRAM")
              THEN <<HashTechLower, HashInnovationLower, HashCoding>>
              ELSE << >>
  IN  Prefix(tags \o more, HashtagCap)

(* ---------------------------------------------------------------------- *)
(* Variants and quality.                                                   *)
(* ---------------------------------------------------------------------- *)
(* len(content) > 500 *)
ShortVersionOver == 500
(* content[:300] *)
ShortVersionLen == 300

(* _generate_variants as it would be with >= in the length test. *)
_generate_variants_ge(content, platform) ==
  LET short == IF Len(content) >= ShortVersionOver
               THEN << Prefix(content, ShortVersionLen) \o Ellipsis >>
               ELSE << >>
  IN  short \o << content \o QuestionSuffix, content \o CallToActionSuffix >>

_generate_variants(content, platform) ==
  LET short == IF Len(content) > ShortVersionOver
               THEN << Prefix(content, ShortVersionLen) \o Ellipsis >>
               ELSE << >>
  IN  short \o << content \o QuestionSuffix, content \o CallToActionSuffix >>

(* the base score, 0.5 *)
BaseScore == 5
(* the length bonus, 0.2 *)
LengthBonus == 2
(* the bonus of each structure check, 0.1 *)
StructureBonus == 1
(* the cap of min(1.0, score) *)
ScoreCap == 10

(* _calculate_quality as it would be with a strict upper length bound. *)
_calculate_quality_strict(content, template) ==
  LET length == Len(content)
      s1 == BaseScore
            + (IF template.min_length <= length /\ length < template.max_length
               THEN LengthBonus ELSE 0)
      s2 == s1 + (IF Contains(<<NL>>, content) THEN StructureBonus ELSE 0)
      s3 == s2 + (IF Contains(<<HASH>>, content) \/ Contains(<<HASH, HASH>>, content)
                  THEN StructureBonus ELSE 0)
  IN  Min(ScoreCap, s3)

_calculate_quality(content, template) ==
  LET length == Len(content)
      s1 == BaseScore
            + (IF template.min_length <= length /\ length <= template.max_length
               THEN LengthBonus ELSE 0)
      s2 == s1 + (IF Contains(<<NL>>, content) THEN StructureBonus ELSE 0)
      s3 == s2 + (IF Contains(<<HASH>>, content) \/ Contains(<<HASH, HASH>>, content)
                  THEN StructureBonus ELSE 0)
  IN  Min(ScoreCap, s3)

(* _generate_id: the text that is hashed; the digest itself is not modelled, *)
(* no property here depends on it.                                         *)
_generate_id(topic, platform, timestamp) ==
  [topic |-> topic, platform |-> platform.value, timestamp |-> timestamp]

(* ---------------------------------------------------------------------- *)
(* generate_content.                                                       *)
(* ---------------------------------------------------------------------- *)
(* Lookup as it would be with a default template substituted on a miss. *)
LookupOrDefault(platform, content_type) ==
  DictGet(DictGet(templates, platform.value, EmptyDict), content_type.value, BlogArticle)

(* lines 281-283: the template of the pair, or None *)
Lookup(platform, content_type) ==
  DictGet(DictGet(templates, platform.value, EmptyDict), content_type.value, None)

(* NewContent as it would be with the title put on top of the body. *)
NewContentTitled(platform, content_type, topic, template, content, pick, t) ==
  LET body == _generate_title(topic, content_type, pick) \o <<NL>> \o content
  IN  [ id            |-> _generate_id(topic, platform, t),
        platform      |-> platform.value,
        content_type  |-> content_type.value,
        title         |-> _generate_title(topic, content_type, pick),
        body          |-> body,
        tags          |-> _generate_tags(topic, platform),
        hashtags      |-> _generate_hashtags(topic, platform),
        created_at    |-> t + 1,
        quality_score |-> _calculate_quality(body, template),
        variants      |-> _generate_variants(body, platform) ]

(* lines 304-315: the GeneratedContent of a call whose body is content.    *)
(* The two datetime.now() reads (in _generate_id, then for created_at) get *)
(* the instants t and t + 1.                                               *)
NewContent(platform, content_type, topic, template, content, pick, t) ==
  [ id            |-> _generate_id(topic, platform, t),
    platform      |-> platform.value,
    content_type  |-> content_type.value,
    title         |-> _generate_title(topic, content_type, pick),
    body          |-> content,
    tags          |-> _generate_tags(topic, platform),
    hashtags      |-> _generate_hashtags(topic, platform),
    created_at    |-> t + 1,
    quality_score |-> _calculate_quality(content, template),
    variants      |-> _generate_variants(content, platform) ]

CallArgs(platform, content_type, topic, tone, language) ==
  [ platform |-> platform.value, content_type |-> content_type.value,
    topic |-> topic, tone |-> tone, language |-> language ]

(* SaveHistory as it would be without line 319. *)
SaveHistoryNoScore(generated) ==
  /\ generation_history' = Append(generation_history, generated)
  /\ quality_scores' = quality_scores

(* SaveHistory as it would be with the newest content put first. *)
SaveHistoryInFront(generated) ==
  /\ generation_history' = <<generated>> \o generation_history
  /\ quality_scores' = <<generated.quality_score>> \o quality_scores

(* SaveHistory as it would be with the score put first in its list. *)
SaveHistoryScoreInFront(generated) ==
  /\ generation_history' = Append(generation_history, generated)
  /\ quality_scores' = <<generated.quality_score>> \o quality_scores

(* lines 318-319: the two appends *)
SaveHistory(generated) ==
  /\ generation_history' = Append(generation_history, generated)
  /\ quality_scores' = Append(quality_scores, generated.quality_score)

(* Attempt as it would be if the language directive of line 291 were put   *)
(* in front of the body as it is put in front of the prompt.               *)
AttemptDirectiveInBody(platform, content_type, topic, tone, language) ==
  LET template == Lookup(platform, content_type)
  IN  IF template = None
      THEN [raised |-> "ValueError", value |-> <<platform.value, content_type.value>>,
            template |-> None]
      ELSE LET prompt  == BuildPrompt(template, topic, language)
               content == _simulate_generation(prompt, template, topic)
           IN  [raised |-> content.raised,
                value |-> IF language = "en" /\ content.raised = "none"
                          THEN LanguageDirective \o content.value
                          ELSE content.value,
                template |-> template]

(* lines 281-294: the lookup and the synthesis.  [raised, value, template], *)
(* value being the body when nothing raised.                               *)
Attempt(platform, content_type, topic, tone, language) ==
  LET template == Lookup(platform, content_type)
  IN  IF template = None
      THEN [raised |-> "ValueError", value |-> <<platform.value, content_type.value>>,
            template |-> None]
      ELSE LET prompt  == BuildPrompt(template, topic, language)
               content == _simulate_generation(prompt, template, topic)
           IN  [raised |-> content.raised, value |-> content.value, template |-> template]

(* the indices random.choice can return for the content type *)
Picks(content_type) == 1..Len(TitleChoices(content_type))

(* what the caller keeps of a call that returned: what it passed and the   *)
(* score of what it got                                                    *)
Returned(args, generated) ==
  [ args |-> args, quality_score |-> generated.quality_score ]

(* A whole generate_content call by a single caller; random holds the      *)
(* indices the caller's random source can make random.choice return.       *)
generate_content(platform, content_type, topic, tone, language, random) ==
  /\ Len(generation_history) < MaxHistory
  /\ LET try  == Attempt(platform, content_type, topic, tone, language)
         args == CallArgs(platform, content_type, topic, tone, language)
     IN  IF try.raised # "none"
         THEN /\ ret' = [op |-> "generate_content", args |-> args,
                         raised |-> try.raised, value |-> try.value]
              /\ UNCHANGED <<generation_history, quality_scores, succeeded, clock>>
         ELSE \E pick \in Picks(content_type) \cap random :
                LET generated == NewContent(platform, content_type, topic, try.template,
                                            try.value, pick, clock)
                IN  /\ SaveHistory(generated)
                    /\ ret' = [op |-> "generate_content", args |-> args,
                               raised |-> "none", value |-> generated]
                    /\ succeeded' = Append(succeeded, Returned(args, generated))
                    /\ clock' = clock + 2
  /\ UNCHANGED <<templates, writer, reader, probe, db, api>>

(* ---------------------------------------------------------------------- *)
(* get_statistics.                                                         *)
(* ---------------------------------------------------------------------- *)
RECURSIVE Sum(_)
Sum(s) == IF s = << >> THEN 0 ELSE Head(s) + Sum(Tail(s))

(* a quotient num / den, den > 0, as a pair in lowest terms *)
RECURSIVE Gcd(_, _)
Gcd(a, b) == IF b = 0 THEN a ELSE Gcd(b, a % b)

Quotient(num, den) ==
  LET g == Gcd(num, den) IN IF g = 0 THEN <<0, 1>> ELSE <<num \div g, den \div g>>

(* the literal 0 of "... else 0" *)
Zero == <<0, 1>>

(* one round of the loop of _count_by_platform / _count_by_type *)
CountStep(counts, key) ==
  [k \in (DOMAIN counts) \cup {key} |->
     IF k = key THEN (IF key \in DOMAIN counts THEN counts[key] ELSE 0) + 1
     ELSE counts[k]]

NoCounts == [k \in {} |-> 0]

RECURSIVE CountLoop(_, _)
CountLoop(keys, counts) ==
  IF keys = << >> THEN counts ELSE CountLoop(Tail(keys), CountStep(counts, Head(keys)))

_count_by_platform ==
  CountLoop([i \in DOMAIN generation_history |-> generation_history[i].platform], NoCounts)

_count_by_type ==
  CountLoop([i \in DOMAIN generation_history |-> generation_history[i].content_type], NoCounts)

(* the dict get_statistics returns *)
Statistics ==
  [ total_generated |-> Len(generation_history),
    avg_quality     |-> IF quality_scores # << >>
                        THEN Quotient(Sum(quality_scores), Len(quality_scores))
                        ELSE Zero,
    by_platform     |-> _count_by_platform,
    by_type         |-> _count_by_type ]

(* A whole get_statistics call by a single caller; scored is the number of *)
(* scores the average was taken over.                                      *)
get_statistics ==
  /\ ret' = [op |-> "get_statistics", args |-> << >>, raised |-> "none",
             value |-> Statistics, scored |-> Len(quality_scores)]
  /\ UNCHANGED <<templates, generation_history, quality_scores, clock, succeeded,
                 writer, reader, probe, db, api>>

(* ---------------------------------------------------------------------- *)
(* The catalog reads.                                                      *)
(* ---------------------------------------------------------------------- *)
_get_platform_icon(platform) == DictGet(Icons, platform.name, DefaultIcon)

AvailablePlatforms ==
  [i \in DOMAIN Platform |->
     [id |-> Platform[i].value, name |-> Platform[i].name,
      icon |-> _get_platform_icon(Platform[i])]]

get_available_platforms ==
  /\ ret' = [op |-> "get_available_platforms", args |-> << >>, raised |-> "none",
             value |-> AvailablePlatforms]
  /\ UNCHANGED <<templates, generation_history, quality_scores, clock, succeeded,
                 writer, reader, probe, db, api>>

(* lines 257-268.  The keys of TEMPLATES are the strings                    *)
(* ContentType.X.value, so the first item of the comprehension evaluates   *)
(* ct.value on a str and raises AttributeError; only a platform without    *)
(* templates, whose comprehension has no item, gets a list back.           *)
TemplateSummaries(platform) ==
  LET found == DictGet(templates, platform.value, EmptyDict)
  IN  IF found = EmptyDict
      THEN [raised |-> "none", value |-> << >>]
      ELSE [raised |-> "AttributeError", value |-> << >>]

(* RegistryAfterRead as it would be with setdefault() in place of get(). *)
RegistryAfterSetdefault(platform) ==
  IF platform.value \in DictKeys(templates) THEN templates
  ELSE Append(templates, [key |-> platform.value, value |-> EmptyDict])

(* what the call leaves in the registry: .get() inserts nothing *)
RegistryAfterRead(platform) == templates

get_templates_for_platform(platform) ==
  /\ ret' = [op |-> "get_templates_for_platform", args |-> platform.value,
             raised |-> TemplateSummaries(platform).raised,
             value |-> TemplateSummaries(platform).value]
  /\ templates' = RegistryAfterRead(platform)
  /\ UNCHANGED <<generation_history, quality_scores, clock, succeeded,
                 writer, reader, probe, db, api>>

(* ---------------------------------------------------------------------- *)
(* Two callers on one engine: one thread in generate_content, one in       *)
(* get_statistics.  The engine takes no lock, so the threads interleave    *)
(* between any two accesses of the shared lists; each list operation       *)
(* (append, len, sum, one round of a for loop) is one step.                *)
(* ---------------------------------------------------------------------- *)
(* lines 281-315: everything before the appends works on locals *)
WriterCall(platform, content_type, topic, tone, language) ==
  /\ writer.pc = "idle"
  /\ Len(generation_history) < MaxHistory
  /\ LET try == Attempt(platform, content_type, topic, tone, language)
     IN  IF try.raised # "none"
         THEN UNCHANGED <<writer, clock>>
         ELSE \E pick \in Picks(content_type) :
                /\ writer' = [pc |-> "append_history",
                              args |-> CallArgs(platform, content_type, topic, tone, language),
                              generated |-> NewContent(platform, content_type, topic,
                                                       try.template, try.value, pick, clock)]
                /\ clock' = clock + 2
  /\ UNCHANGED <<templates, generation_history, quality_scores, ret, succeeded, reader, probe, db, api>>

(* line 318 *)
WriterAppendHistory ==
  /\ writer.pc = "append_history"
  /\ generation_history' = Append(generation_history, writer.generated)
  /\ writer' = [writer EXCEPT !.pc = "append_score"]
  /\ UNCHANGED <<templates, quality_scores, clock, ret, succeeded, reader, probe, db, api>>

(* line 319, and the return *)
WriterAppendScore ==
  /\ writer.pc = "append_score"
  /\ quality_scores' = Append(quality_scores, writer.generated.quality_score)
  /\ writer' = Idle
  /\ succeeded' = Append(succeeded, Returned(writer.args, writer.generated))
  /\ UNCHANGED <<templates, generation_history, clock, ret, reader, probe, db, api>>

(* get_statistics is entered *)
ReaderCall ==
  /\ reader.pc = "idle"
  /\ reader' = [pc |-> "total"]
  /\ UNCHANGED <<templates, generation_history, quality_scores, clock, ret, succeeded,
                 writer, probe, db, api>>

(* line 584: len(self.generation_history) *)
ReaderTotal ==
  /\ reader.pc = "total"
  /\ reader' = [pc |-> "avg_test", total |-> Len(generation_history)]
  /\ UNCHANGED <<templates, generation_history, quality_scores, clock, ret, succeeded,
                 writer, probe, db, api>>

(* line 585: the test of the conditional expression *)
ReaderAvgTest ==
  /\ reader.pc = "avg_test"
  /\ reader' = IF quality_scores # << >>
               THEN [pc |-> "avg_sum", total |-> reader.total]
               ELSE [pc |-> "by_platform", total |-> reader.total, avg |-> Zero,
                     scored |-> 0, i |-> 1, counts |-> NoCounts]
  /\ UNCHANGED <<templates, generation_history, quality_scores, clock, ret, succeeded,
                 writer, probe, db, api>>

(* line 585: sum(self.quality_scores) *)
ReaderAvgSum ==
  /\ reader.pc = "avg_sum"
  /\ reader' = [pc |-> "avg_len", total |-> reader.total, sum |-> Sum(quality_scores)]
  /\ UNCHANGED <<templates, generation_history, quality_scores, clock, ret, succeeded,
                 writer, probe, db, api>>

(* line 585: len(self.quality_scores), and the division *)
ReaderAvgLen ==
  /\ reader.pc = "avg_len"
  /\ reader' = [pc |-> "by_platform", total |-> reader.total,
                avg |-> Quotient(reader.sum, Len(quality_scores)),
                scored |-> Len(quality_scores), i |-> 1, counts |-> NoCounts]
  /\ UNCHANGED <<templates, generation_history, quality_scores, clock, ret, succeeded,
                 writer, probe, db, api>>

(* lines 592-595: one round of the loop of _count_by_platform, or its end *)
ReaderCountPlatform ==
  /\ reader.pc = "by_platform"
  /\ reader' = IF reader.i <= Len(generation_history)
               THEN [reader EXCEPT
                       !.counts = CountStep(@, generation_history[reader.i].platform),
                       !.i = @ + 1]
               ELSE [pc |-> "by_type", total |-> reader.total, avg |-> reader.avg,
                     scored |-> reader.scored, by_platform |-> reader.counts,
                     i |-> 1, counts |-> NoCounts]
  /\ UNCHANGED <<templates, generation_history, quality_scores, clock, ret, succeeded,
                 writer, probe, db, api>>

(* lines 599-602: one round of the loop of _count_by_type, or its end and  *)
(* the return of the dict                                                  *)
ReaderCountType ==
  /\ reader.pc = "by_type"
  /\ IF reader.i <= Len(generation_history)
     THEN /\ reader' = [reader EXCEPT
                          !.counts = CountStep(@, generation_history[reader.i].content_type),
                          !.i = @ + 1]
          /\ UNCHANGED ret
     ELSE /\ reader' = Idle
          /\ ret' = [op |-> "get_statistics", args |-> << >>, raised |-> "none",
                     value |-> [ total_generated |-> reader.total,
                                 avg_quality     |-> reader.avg,
                                 by_platform     |-> reader.by_platform,
                                 by_type         |-> reader.counts ],
                     scored |-> reader.scored]
  /\ UNCHANGED <<templates, generation_history, quality_scores, clock, succeeded,
                 writer, probe, db, api>>

(* ---------------------------------------------------------------------- *)
(* The content store of src/api/monetization_api.py.                       *)
(*                                                                         *)
(* An id is a record: [literal |-> ...] for an id written out in the       *)
(* source or in a request, [prefix, timestamp] for one made by             *)
(* generate_id (the text that is hashed).  An ISO timestamp is             *)
(* [iso |-> text]; the text of datetime.now().isoformat() is the instant   *)
(* itself.  Earnings are in hundredths.                                    *)
(*                                                                         *)
(* Line 175 calls init_sample_data while the module is loaded, and the     *)
(* call raises (see Content below).  As shipped the load stops there and   *)
(* no handler is ever registered.  As for line 479 of the engine, the      *)
(* failure is kept to the call it happens in: the handlers are modelled    *)
(* from their own text, on the store that call leaves behind.              *)
(* ---------------------------------------------------------------------- *)
(* src/api/monetization_api.py:92-108: the sample cnt_001, "Python异步编程技巧" *)
Sample_cnt_001 ==
  [ id |-> [literal |-> "cnt_001"],
    platform |-> "twitter",
    content_type |-> "post",
    title |-> <<80, 121, 116, 104, 111, 110, 24322, 27493, 32534, 31243, 25216, 24039>>,
    body |-> <<129525, 32, 20851, 20110, 80, 121, 116, 104, 111, 110, 24322, 27493, 32534,
        31243, 65292, 20998, 20139, 20960, 20010, 20851, 38190, 27934, 23519, 46, 46,
        46>>,
    tags |-> <<<<80, 121, 116, 104, 111, 110>>, <<24322, 27493>>>>,
    hashtags |-> <<<<35, 84, 101, 99, 104>>, <<35, 80, 121, 116, 104, 111, 110>>>>,
    status |-> "published",
    scheduled_at |-> None,
    published_at |-> [iso |-> <<50, 48, 50, 54, 45, 48, 50, 45, 48, 56, 84, 49, 48, 58, 48, 48, 58,
        48, 48>>],
    views |-> 12500,
    likes |-> 892,
    shares |-> 156,
    comments |-> 45,
    earnings |-> 1250 ]

(* src/api/monetization_api.py:109-125: the sample cnt_002, "AI工具完全指南" *)
Sample_cnt_002 ==
  [ id |-> [literal |-> "cnt_002"],
    platform |-> "blog",
    content_type |-> "article",
    title |-> <<65, 73, 24037, 20855, 23436, 20840, 25351, 21335>>,
    body |-> <<35, 32, 65, 73, 24037, 20855, 23436, 20840, 25351, 21335, 10, 10, 22312,
        24403, 20170, 46, 46, 46>>,
    tags |-> <<<<65, 73>>, <<24037, 20855>>>>,
    hashtags |-> <<<<35, 65, 73>>, <<35, 24037, 20855>>>>,
    status |-> "published",
    scheduled_at |-> None,
    published_at |-> [iso |-> <<50, 48, 50, 54, 45, 48, 50, 45, 48, 55, 84, 49, 52, 58, 48, 48, 58,
        48, 48>>],
    views |-> 45600,
    likes |-> 2340,
    shares |-> 890,
    comments |-> 123,
    earnings |-> 4580 ]

(* src/api/monetization_api.py:126-142: the sample cnt_003, "5年职场教会我的" *)
Sample_cnt_003 ==
  [ id |-> [literal |-> "cnt_003"],
    platform |-> "linkedin",
    content_type |-> "post",
    title |-> <<53, 24180, 32844, 22330, 25945, 20250, 25105, 30340>>,
    body |-> <<128188, 32, 20851, 20110, 32844, 22330, 25104, 38271, 46, 46, 46>>,
    tags |-> <<<<32844, 22330>>, <<25104, 38271>>>>,
    hashtags |-> <<<<35, 32844, 22330>>, <<35, 25104, 38271>>>>,
    status |-> "scheduled",
    scheduled_at |-> [iso |-> <<50, 48, 50, 54, 45, 48, 50, 45, 49, 48, 84, 48, 57, 58, 48, 48, 58,
        48, 48>>],
    published_at |-> None,
    views |-> 0,
    likes |-> 0,
    shares |-> 0,
    comments |-> 0,
    earnings |-> 0 ]

(* lines 92-142: the samples list *)
Samples == << Sample_cnt_001, Sample_cnt_002, Sample_cnt_003 >>

(* lines 150-171: the sample accounts *)
SampleAccounts ==
  << [key |-> "acc_001", value |->
       [ id |-> [literal |-> "acc_001"],
         platform |-> "twitter",
         username |-> <<64, 116, 101, 99, 104, 95, 99, 114, 101, 97, 116, 111, 114>>,
         followers |-> 15000,
         is_connected |-> TRUE,
         access_token |-> <<109, 111, 99, 107, 95, 116, 111, 107, 101, 110, 95, 120, 120, 120>>,
         refresh_token |-> None,
         token_expires |-> None ]],
     [key |-> "acc_002", value |->
       [ id |-> [literal |-> "acc_002"],
         platform |-> "blog",
         username |-> <<116, 101, 99, 104, 45, 98, 108, 111, 103, 46, 99, 111, 109>>,
         followers |-> 25000,
         is_connected |-> TRUE,
         access_token |-> None,
         refresh_token |-> None,
         token_expires |-> None ]] >>

(* the longest the clock of a store runs *)
MaxClock == 6

(* the fields of Content that have no default, lines 31-42 *)
ContentRequired ==
  { "id", "platform", "content_type", "title", "body", "tags", "hashtags", "status",
    "scheduled_at", "published_at", "created_at", "updated_at" }

(* the fields of Content that have one, lines 45-49 *)
ContentDefaults == [views |-> 0, likes |-> 0, shares |-> 0, comments |-> 0, earnings |-> 0]

(* Content called with keywords: the __init__ the dataclass decorator     *)
(* writes.  A                                                              *)
(* missing field without default, or a keyword that is no field, is a      *)
(* TypeError.                                                              *)
Content(kwargs) ==
  LET fields == ContentRequired \cup DOMAIN ContentDefaults
  IN  IF ~(DOMAIN kwargs \subseteq fields) \/ ~(ContentRequired \subseteq DOMAIN kwargs)
      THEN [raised |-> "TypeError", value |-> None]
      ELSE [raised |-> "none",
            value |-> [f \in fields |->
                         IF f \in DOMAIN kwargs THEN kwargs[f] ELSE ContentDefaults[f]]]

(* d[k] = v *)
DictSet(d, k, v) ==
  IF k \in DictKeys(d)
  THEN [i \in DOMAIN d |-> IF d[i].key = k THEN [key |-> k, value |-> v] ELSE d[i]]
  ELSE Append(d, [key |-> k, value |-> v])

(* Database.__init__, lines 82-86 *)
Database == [contents |-> EmptyDict, accounts |-> EmptyDict]

(* the loop of lines 145-147, up to the sample whose Content raises *)
RECURSIVE SampleLoop(_, _)
SampleLoop(samples, contents) ==
  IF samples = << >> THEN [raised |-> "none", contents |-> contents]
  ELSE LET content == Content(Head(samples))
       IN  IF content.raised # "none"
           THEN [raised |-> content.raised, contents |-> contents]
           ELSE SampleLoop(Tail(samples),
                           DictSet(contents, content.value.id, content.value))

(* lines 174-175: db = Database() has run, db.init_sample_data() runs *)
init_sample_data ==
  /\ api.pc = "import"
  /\ LET loop == SampleLoop(Samples, db.contents)
     IN  /\ db' = [contents |-> loop.contents,
                   accounts |-> IF loop.raised = "none" THEN SampleAccounts
                                ELSE db.accounts]
         /\ api' = [pc |-> "serving", raised |-> loop.raised]
         /\ ret' = [op |-> "init_sample_data", args |-> << >>,
                    raised |-> loop.raised, value |-> << >>]
  /\ UNCHANGED <<templates, generation_history, quality_scores, clock, succeeded,
                 writer, reader, probe>>

(* 'Bearer ' *)
BearerPrefix == <<66, 101, 97, 114, 101, 114, 32>>

(* the Authorization headers a request comes with: none, 'Bearer ' and     *)
(* 'Bearer t'                                                              *)
Headers == { << >>, BearerPrefix, BearerPrefix \o <<116>> }

(* require_auth, lines 191-195: the token is what is left of the header *)
Authorized(header) == StrReplace(header, BearerPrefix, << >>) # << >>

(* line 193 *)
Unauthorized == [code |-> 401, json |-> [error |-> "Unauthorized"]]

(* lines 317 and 417 *)
NotFound == [code |-> 404, json |-> [error |-> "Content not found"]]

(* data.get(key, default) *)
Get(data, key, default) == IF key \in DOMAIN data THEN data[key] ELSE default

(* generate_id, lines 180-184: the text that is hashed *)
generate_id(prefix, timestamp) == [prefix |-> prefix, timestamp |-> timestamp]

(* datetime.now().isoformat() at the instant t *)
Isoformat(t) == [iso |-> <<t>>]

(* a JSON object without members *)
EmptyJson == << >>

(* the JSON bodies of the create requests *)
CreateBodies ==
  { EmptyJson,
    [title |-> <<97>>],
    [platform |-> "twitter", content_type |-> "post", title |-> <<97>>,
     scheduled_at |-> [iso |-> <<50>>]],
    [status |-> "published", published_at |-> [iso |-> <<50>>]] }

(* the content ids of the requests: the stored ones, a sample's and one    *)
(* nobody has                                                              *)
RequestIds ==
  DictKeys(db.contents) \cup {Sample_cnt_001.id, [literal |-> "cnt_none"]}

(* the JSON bodies of the schedule requests *)
ScheduleBodies ==
  { EmptyJson } \cup { [content_id |-> id] : id \in RequestIds }
  \cup { [content_id |-> id, scheduled_at |-> [iso |-> <<50>>]] : id \in RequestIds }

(* lines 280-293: the Content of a create request; the three now() reads   *)
(* (in generate_id, for created_at, for updated_at) get t, t + 1, t + 2    *)
NewDraft(data, t) ==
  Content([ id           |-> generate_id("cnt", t),
            platform     |-> Get(data, "platform", "blog"),
            content_type |-> Get(data, "content_type", "article"),
            title        |-> Get(data, "title", << >>),
            body         |-> Get(data, "body", << >>),
            tags         |-> Get(data, "tags", << >>),
            hashtags     |-> Get(data, "hashtags", << >>),
            status       |-> "draft",
            scheduled_at |-> Get(data, "scheduled_at", None),
            published_at |-> None,
            created_at   |-> Isoformat(t + 1),
            updated_at   |-> Isoformat(t + 2) ])

(* POST /api/contents, lines 275-301 *)
create_content(header, data) ==
  /\ api.pc = "serving"
  /\ clock < MaxClock
  /\ IF ~Authorized(header)
     THEN /\ ret' = [op |-> "create_content", args |-> data, raised |-> "none",
                     value |-> Unauthorized]
          /\ UNCHANGED <<db, clock>>
     ELSE LET content == NewDraft(data, clock).value
          IN  /\ db' = [db EXCEPT !.contents = DictSet(@, content.id, content)]
              /\ ret' = [op |-> "create_content", args |-> data, raised |-> "none",
                         value |-> [code |-> 201,
                                    json |-> [content |-> content,
                                              message |-> "Content created successfully"]]]
              /\ clock' = clock + 3
  /\ UNCHANGED <<templates, generation_history, quality_scores, succeeded,
                 writer, reader, probe, api>>

(* lines 320-327: what publish_content makes of a content *)
Published(content, t) ==
  [content EXCEPT !.status = "published",
                  !.published_at = Isoformat(t),
                  !.updated_at = Isoformat(t + 1),
                  !.views = 100, !.likes = 10, !.earnings = 150]

(* POST /api/contents/<content_id>/publish, lines 312-332 *)
publish_content(header, content_id) ==
  /\ api.pc = "serving"
  /\ clock < MaxClock
  /\ IF ~Authorized(header)
     THEN /\ ret' = [op |-> "publish_content", args |-> content_id, raised |-> "none",
                     value |-> Unauthorized]
          /\ UNCHANGED <<db, clock>>
     ELSE LET content == DictGet(db.contents, content_id, None)
          IN  IF content = None
              THEN /\ ret' = [op |-> "publish_content", args |-> content_id,
                              raised |-> "none", value |-> NotFound]
                   /\ UNCHANGED <<db, clock>>
              ELSE LET published == Published(content, clock)
                   IN  /\ db' = [db EXCEPT !.contents = DictSet(@, content_id, published)]
                       /\ ret' = [op |-> "publish_content", args |-> content_id,
                                  raised |-> "none",
                                  value |-> [code |-> 200,
                                             json |-> [message |-> "Content published successfully",
                                                       content |-> published]]]
                       /\ clock' = clock + 2
  /\ UNCHANGED <<templates, generation_history, quality_scores, succeeded,
                 writer, reader, probe, api>>

(* lines 419-421: what schedule_content makes of a content *)
Scheduled(content, scheduled_at, t) ==
  [content EXCEPT !.status = "scheduled",
                  !.scheduled_at = scheduled_at,
                  !.updated_at = Isoformat(t)]

(* POST /api/scheduler/schedule, lines 408-427 *)
schedule_content(header, data) ==
  /\ api.pc = "serving"
  /\ clock < MaxClock
  /\ IF ~Authorized(header)
     THEN /\ ret' = [op |-> "schedule_content", args |-> data, raised |-> "none",
                     value |-> Unauthorized]
          /\ UNCHANGED <<db, clock>>
     ELSE LET content_id   == Get(data, "content_id", None)
              scheduled_at == Get(data, "scheduled_at", None)
              content      == DictGet(db.contents, content_id, None)
          IN  IF content = None
              THEN /\ ret' = [op |-> "schedule_content", args |-> data,
                              raised |-> "none", value |-> NotFound]
                   /\ UNCHANGED <<db, clock>>
              ELSE LET scheduled == Scheduled(content, scheduled_at, clock)
                   IN  /\ db' = [db EXCEPT !.contents = DictSet(@, content_id, scheduled)]
                       /\ ret' = [op |-> "schedule_content", args |-> data,
                                  raised |-> "none",
                                  value |-> [code |-> 200,
                                             json |-> [message |-> "Content scheduled successfully",
                                                       content |-> scheduled]]]
                       /\ clock' = clock + 1
  /\ UNCHANGED <<templates, generation_history, quality_scores, succeeded,
                 writer, reader, probe, api>>

(* ---------------------------------------------------------------------- *)
(* The helpers called on their own, on arguments drawn from bounded sets.  *)
(* ---------------------------------------------------------------------- *)
(* the longest short content *)
MaxContentLen == 3
(* how far around a threshold the content lengths go *)
MaxPad == 2

(* a content of n characters, neighbours differing *)
Filler(n) == [i \in 1..n |-> 97 + (i % 26)]

(* short contents over "a", "\n" and "#" *)
ShortContents == Texts({97, NL, HASH}, MaxContentLen)

(* contents whose lengths lie around 0, ShortVersionLen and ShortVersionOver *)
PaddedContents ==
  {Filler(n) : n \in (0..MaxPad)
                     \cup ((ShortVersionLen - MaxPad)..(ShortVersionLen + MaxPad))
                     \cup ((ShortVersionOver - MaxPad)..(ShortVersionOver + MaxPad))}

(* the registered (platform value, content type value, template) triples *)
RegisteredItems ==
  UNION {{<<TEMPLATES[i].key, TEMPLATES[i].value[j].key, TEMPLATES[i].value[j].value>> :
            j \in DOMAIN TEMPLATES[i].value} : i \in DOMAIN TEMPLATES}

RegisteredTemplates == {item[3] : item \in RegisteredItems}

(* templates that differ in nothing but their length range, with           *)
(* min_length <= max_length                                                *)
RangeTemplates ==
  {[BlogArticle EXCEPT !.min_length = a, !.max_length = b] :
     a \in 0..MaxContentLen, b \in 0..(MaxContentLen + 1)} 

QualityCalls ==
  {[pc |-> "call", fn |-> "_calculate_quality", content |-> c, template |-> t] :
     c \in ShortContents, t \in {r \in RangeTemplates : r.min_length <= r.max_length}}
  \cup
  {[pc |-> "call", fn |-> "_calculate_quality",
    content |-> FString(ShapeOf(Branch(t)), topic), template |-> t] :
     t \in {r \in RegisteredTemplates : Compiles(ShapeOf(Branch(r)))}, topic \in ShortTopics}

VariantCalls ==
  {[pc |-> "call", fn |-> "_generate_variants", content |-> c, platform |-> p] :
     c \in PaddedContents, p \in Members(Platform)}

HashtagCalls ==
  {[pc |-> "call", fn |-> "_generate_hashtags", topic |-> t, platform |-> p] :
     t \in ShortTopics, p \in Members(Platform)}

(* the substrings the dispatch of _simulate_generation looks for *)
DispatchKeys ==
  {KeyGuideA, KeyGuideB, KeyMicroA, KeyMicroB, KeyCasual, KeyNarrativeA, KeyNarrativeB}

(* names made of at most two of these substrings, or of none *)
ProbeNames ==
  {a \o b : a \in DispatchKeys \cup {<< >>, <<97>>}, b \in DispatchKeys \cup {<< >>, <<97>>}}

(* the registered templates, and templates of every such name *)
NamedTemplates ==
  RegisteredTemplates \cup {[BlogArticle EXCEPT !.name = n] : n \in ProbeNames}

SimulationCalls ==
  {[pc |-> "call", fn |-> "_simulate_generation", template |-> t, topic |-> topic] :
     t \in NamedTemplates, topic \in Topics}

call_calculate_quality ==
  /\ probe.pc = "call" /\ probe.fn = "_calculate_quality"
  /\ probe' = [pc |-> "done", fn |-> probe.fn, content |-> probe.content,
               template |-> probe.template,
               out |-> _calculate_quality(probe.content, probe.template)]
  /\ UNCHANGED <<templates, generation_history, quality_scores, clock, ret, succeeded,
                 writer, reader, db, api>>

call_generate_variants ==
  /\ probe.pc = "call" /\ probe.fn = "_generate_variants"
  /\ probe' = [pc |-> "done", fn |-> probe.fn, content |-> probe.content,
               platform |-> probe.platform,
               out |-> _generate_variants(probe.content, probe.platform)]
  /\ UNCHANGED <<templates, generation_history, quality_scores, clock, ret, succeeded,
                 writer, reader, db, api>>

call_generate_hashtags ==
  /\ probe.pc = "call" /\ probe.fn = "_generate_hashtags"
  /\ probe' = [pc |-> "done", fn |-> probe.fn, topic |-> probe.topic,
               platform |-> probe.platform,
               out |-> _generate_hashtags(probe.topic, probe.platform)]
  /\ UNCHANGED <<templates, generation_history, quality_scores, clock, ret, succeeded,
                 writer, reader, db, api>>


(* branch is the branch of the if/elif chain the call went into *)
call_simulate_generation ==
  /\ probe.pc = "call" /\ probe.fn = "_simulate_generation"
  /\ probe' = [pc |-> "done", fn |-> probe.fn, template |-> probe.template,
               topic |-> probe.topic,
               branch |-> Branch(probe.template),
               out |-> _simulate_generation(BuildPrompt(probe.template, probe.topic,
                                                        "zh"),
                                            probe.template, probe.topic)]
  /\ UNCHANGED <<templates, generation_history, quality_scores, clock, ret, succeeded,
                 writer, reader, db, api>>
(* ---------------------------------------------------------------------- *)
(* Specifications.                                                         *)
(* ---------------------------------------------------------------------- *)
(* __init__, lines 231-234 *)
EngineInit ==
  /\ templates = TEMPLATES
  /\ generation_history = << >>
  /\ quality_scores = << >>
  /\ clock = 0
  /\ ret = [op |-> "none", args |-> << >>, raised |-> "none", value |-> << >>]
  /\ succeeded = << >>
  /\ writer = Idle
  /\ reader = Idle

(* lines 174: db = Database(), the module being loaded *)
ApiInit ==
  /\ db = Database
  /\ api = [pc |-> "import", raised |-> "none"]

Init == EngineInit /\ ApiInit /\ probe = Idle

(* the defaults of the signature of generate_content, lines 275-276 *)
DefaultTone == "neutral"
DefaultLanguage == "zh"

(* a random source that can make random.choice return any index, and one   *)
(* that returns the first or the second                                    *)
AnyIndex == Nat
FirstIndices == {1, 2}

(* One caller, one call after the other. *)
Next ==
  \/ \E platform \in Members(Platform), content_type \in Members(ContentType),
        topic \in Topics :
       generate_content(platform, content_type, topic, DefaultTone, DefaultLanguage,
                        FirstIndices)
  \/ get_statistics
  \/ get_available_platforms
  \/ \E platform \in Members(Platform) : get_templates_for_platform(platform)

Spec == Init /\ [][Next]_vars

(* One caller generating for the registered pairs and two topics, to       *)
(* compare the calls with each other.                                      *)
CompareTopics == {AsyncPatterns, <<97>>}

NextCompare ==
  \E item \in RegisteredItems, topic \in CompareTopics :
    generate_content(ByValue(Platform, item[1]), ByValue(ContentType, item[2]),
                     topic, DefaultTone, DefaultLanguage, AnyIndex)

SpecCompare == Init /\ [][NextCompare]_vars

(* One caller passing tones and languages of its own. *)
Tones == {DefaultTone, "professional"}
Languages == {DefaultLanguage, "en"}

TonePairs ==
  { <<Member(Platform, "BLOG"), Member(ContentType, "ARTICLE")>>,
    <<Member(Platform, "TWITTER"), Member(ContentType, "POST")>>,
    <<Member(Platform, "TWITTER"), Member(ContentType, "HEADLINE")>>,
    <<Member(Platform, "INSTAGRAM"), Member(ContentType, "ARTICLE")>> }

NextTones ==
  \E pair \in TonePairs, topic \in Topics, tone \in Tones, language \in Languages :
    generate_content(pair[1], pair[2], topic, tone, language, FirstIndices)

SpecTones == Init /\ [][NextTones]_vars

(* Two threads on one engine. *)
ThreadPairs ==
  { <<Member(Platform, "BLOG"), Member(ContentType, "ARTICLE")>>,
    <<Member(Platform, "TWITTER"), Member(ContentType, "POST")>>,
    <<Member(Platform, "INSTAGRAM"), Member(ContentType, "ARTICLE")>> }

NextThreads ==
  \/ \E pair \in ThreadPairs, topic \in Topics :
       WriterCall(pair[1], pair[2], topic, DefaultTone, DefaultLanguage)
  \/ WriterAppendHistory
  \/ WriterAppendScore
  \/ ReaderCall
  \/ ReaderTotal
  \/ ReaderAvgTest
  \/ ReaderAvgSum
  \/ ReaderAvgLen
  \/ ReaderCountPlatform
  \/ ReaderCountType

SpecThreads == Init /\ [][NextThreads]_vars

(* A helper applied to arguments of its own. *)
InitHelpers ==
  /\ EngineInit
  /\ ApiInit
  /\ probe \in (QualityCalls \cup VariantCalls \cup HashtagCalls \cup SimulationCalls)

NextHelpers ==
  \/ call_calculate_quality
  \/ call_generate_variants
  \/ call_generate_hashtags
  \/ call_simulate_generation

SpecHelpers == InitHelpers /\ [][NextHelpers]_vars


(* The API module: its load, then authenticated and unauthenticated        *)
(* requests one after the other.                                           *)
NextApi ==
  \/ init_sample_data
  \/ \E header \in Headers, data \in CreateBodies : create_content(header, data)
  \/ \E header \in Headers, content_id \in RequestIds : publish_content(header, content_id)
  \/ \E header \in Headers, data \in ScheduleBodies : schedule_content(header, data)

SpecApi == Init /\ [][NextApi]_vars
(* ---------------------------------------------------------------------- *)
(* Properties.                                                             *)
(* ---------------------------------------------------------------------- *)
IsRegistered(platform_value, content_type_value) ==
  \E item \in RegisteredItems : item[1] = platform_value /\ item[2] = content_type_value

IsPrefixOf(s, t) == Len(s) <= Len(t) /\ SubSeq(t, 1, Len(s)) = s

(* C1: a generate_content call for a (platform, content type) pair without *)
(* a registered template ends with the template-not-found error (the       *)
(* ValueError naming the pair) and leaves generation_history and           *)
(* quality_scores as they were; no template is substituted.                *)
C1_UnregisteredPairFails ==
  [][ (ret'.op = "generate_content"
       /\ ~IsRegistered(ret'.args.platform, ret'.args.content_type))
      => /\ ret'.raised = "ValueError"
         /\ ret'.value = <<ret'.args.platform, ret'.args.content_type>>
         /\ generation_history' = generation_history
         /\ quality_scores' = quality_scores ]_vars

(* a call for (instagram, article) has failed on an engine that holds a    *)
(* content                                                                 *)
C1_Witness ==
  /\ ret.op = "generate_content"
  /\ ret.args.platform = "instagram" /\ ret.args.content_type = "article"
  /\ ret.raised = "ValueError"
  /\ Len(generation_history) = 1 /\ Len(quality_scores) = 1

(* the number of the calls that returned, for a platform or content type *)
ReturnedFor(field, value) ==
  Cardinality({i \in DOMAIN succeeded : succeeded[i].args[field] = value})

(* the keys of the calls that returned *)
ReturnedKeys(field) == {succeeded[i].args[field] : i \in DOMAIN succeeded}

(* C2: get_statistics never fails, and what it returns is: total_generated *)
(* the number of generate_content calls that returned, avg_quality the     *)
(* mean of their scores (0 when there is none), by_platform and by_type    *)
(* the number of those calls per platform and per content type, with no    *)
(* key for a count of zero.                                                *)
C2_StatisticsOfReturnedCalls ==
  ret.op = "get_statistics" =>
    /\ ret.raised = "none"
    /\ ret.value.total_generated = Len(succeeded)
    /\ IF succeeded = << >>
       THEN ret.value.avg_quality = <<0, 1>>
       ELSE ret.value.avg_quality[1] * Len(succeeded)
              = ret.value.avg_quality[2]
                  * Sum([i \in DOMAIN succeeded |-> succeeded[i].quality_score])
    /\ DOMAIN ret.value.by_platform = ReturnedKeys("platform")
    /\ \A p \in DOMAIN ret.value.by_platform :
         ret.value.by_platform[p] = ReturnedFor("platform", p)
    /\ DOMAIN ret.value.by_type = ReturnedKeys("content_type")
    /\ \A t \in DOMAIN ret.value.by_type :
         ret.value.by_type[t] = ReturnedFor("content_type", t)

(* the statistics after generate(blog, article) and generate(twitter, post) *)
C2_Witness ==
  /\ ret.op = "get_statistics"
  /\ ret.value.total_generated = 2
  /\ DOMAIN ret.value.by_platform = {"blog", "twitter"}
  /\ ret.value.by_platform["blog"] = 1 /\ ret.value.by_platform["twitter"] = 1
  /\ ret.value.avg_quality = <<8, 1>>

(* the sum of the counts of a by_platform or by_type dict *)
RECURSIVE SumOfCounts(_, _)
SumOfCounts(counts, keys) ==
  IF keys = {} THEN 0
  ELSE LET k == CHOOSE x \in keys : TRUE
       IN  counts[k] + SumOfCounts(counts, keys \ {k})

(* C3: with generate_content and get_statistics run by concurrent callers, *)
(* what get_statistics returns is a consistent snapshot: its               *)
(* total_generated is the number of scores its avg_quality was taken over  *)
(* and the sum of its by_platform counts.                                  *)
C3_ConsistentSnapshot ==
  ret.op = "get_statistics" =>
    /\ ret.value.total_generated = ret.scored
    /\ ret.value.total_generated
         = SumOfCounts(ret.value.by_platform, DOMAIN ret.value.by_platform)

(* C4: the quality score, in tenths, is 5, plus 2 when the length of the   *)
(* body lies in [min_length, max_length] of the template, plus 1 when the  *)
(* body holds a line break, plus 1 when it holds a "#", capped at 10; it   *)
(* is one of 5, 6, 7, 8, 9, 10.                                            *)
C4_QualityLattice ==
  (probe.pc = "done" /\ probe.fn = "_calculate_quality") =>
    LET body     == probe.content
        inRange  == /\ probe.template.min_length <= Len(body)
                    /\ Len(body) <= probe.template.max_length
        hasBreak == \E i \in DOMAIN body : body[i] = 10
        hasHash  == \E i \in DOMAIN body : body[i] = 35
        raw      == 5 + (IF inRange THEN 2 ELSE 0) + (IF hasBreak THEN 1 ELSE 0)
                      + (IF hasHash THEN 1 ELSE 0)
    IN  /\ probe.out \in {5, 6, 7, 8, 9, 10}
        /\ probe.out = IF raw > 10 THEN 10 ELSE raw

(* a synthesized body scored against its registered template, all three    *)
(* conditions holding                                                      *)
C4_Witness ==
  /\ probe.pc = "done" /\ probe.fn = "_calculate_quality"
  /\ probe.template \in RegisteredTemplates
  /\ probe.out = 9

(* C5: _generate_variants returns 2 elements for a body of at most 500     *)
(* characters and 3 for a longer one: the truncated variant (the first 300 *)
(* characters and "...") first when there is one, then the body with the   *)
(* question sentence, then the body with the call-to-action sentence.      *)
C5_Variants ==
  (probe.pc = "done" /\ probe.fn = "_generate_variants") =>
    LET body == probe.content
        out  == probe.out
    IN  /\ Len(body) <= 500 => Len(out) = 2
        /\ Len(body) > 500 =>
             /\ Len(out) = 3
             /\ out[1] = SubSeq(body, 1, 300) \o <<46, 46, 46>>
        /\ Len(out) >= 2
        /\ out[Len(out) - 1] = body \o QuestionSuffix
        /\ out[Len(out)] = body \o CallToActionSuffix

(* a body of 501 characters got its three variants *)
C5_Witness ==
  /\ probe.pc = "done" /\ probe.fn = "_generate_variants"
  /\ Len(probe.content) = 501
  /\ Len(probe.out) = 3 /\ Len(probe.out[1]) = 303

(* C6: _generate_hashtags returns between 1 and 5 elements, the first the  *)
(* topic without its spaces between two "#", followed by the fixed         *)
(* hashtags of the platform in their order.                                *)
C6_Hashtags ==
  (probe.pc = "done" /\ probe.fn = "_generate_hashtags") =>
    LET out      == probe.out
        stripped == SelectSeq(probe.topic, LAMBDA c : c # 32)
        fixed    == CASE probe.platform.value = "twitter" ->
                           <<HashTech, HashInnovation, HashAI>>
                      [] probe.platform.value = "instagram" ->
                           <<HashTechLower, HashInnovationLower, HashCoding>>
                      [] OTHER -> << >>
    IN  /\ 1 <= Len(out) /\ Len(out) <= 5
        /\ out[1] = <<35>> \o stripped \o <<35>>
        /\ Tail(out) = fixed

(* the hashtags of a topic with a space in it, for twitter *)
C6_Witness ==
  /\ probe.pc = "done" /\ probe.fn = "_generate_hashtags"
  /\ probe.platform.value = "twitter"
  /\ \E i \in DOMAIN probe.topic : probe.topic[i] = 32
  /\ \E i \in DOMAIN probe.topic : probe.topic[i] # 32
  /\ Len(probe.out) = 4

(* C7: a generate_content call for a registered (platform, content type)   *)
(* pair returns a body that holds the topic as given, whichever branch of  *)
(* _simulate_generation the template is dispatched to.                     *)
C7_BodyHoldsTopic ==
  (ret.op = "generate_content"
   /\ IsRegistered(ret.args.platform, ret.args.content_type))
  => /\ ret.raised = "none"
     /\ Contains(ret.args.topic, ret.value.body)

(* C8: of two generate_content calls with the same platform, content type, *)
(* topic, tone and language, whatever the history each was made on and     *)
(* whatever title each picked, the bodies are the same and the quality     *)
(* scores are the same.                                                    *)
C8_TitleIsTheOnlyChoice ==
  \A i, j \in DOMAIN succeeded :
    succeeded[i].args = succeeded[j].args =>
      /\ generation_history[i].body = generation_history[j].body
      /\ generation_history[i].quality_score = generation_history[j].quality_score

(* two calls with the same arguments returned contents with two titles *)
C8_Witness ==
  /\ Len(generation_history) = 2 /\ Len(succeeded) = 2
  /\ succeeded[1].args = succeeded[2].args
  /\ succeeded[1].args.topic = AsyncPatterns
  /\ generation_history[1].title # generation_history[2].title
  /\ generation_history[1].body = generation_history[2].body

(* C9: generation_history only grows at its end: every step leaves the     *)
(* history it found as a prefix of the history it leaves, so that no       *)
(* content already stored is changed, moved or dropped.                    *)
C9_AppendOnly ==
  [][IsPrefixOf(generation_history, generation_history')]_vars

(* a history of two contents, after a failed call and a read *)
C9_Witness ==
  /\ Len(generation_history) = 2
  /\ generation_history[1].platform # generation_history[2].platform
  /\ ret.op = "get_statistics"

(* C10: get_statistics, get_available_platforms and                        *)
(* get_templates_for_platform leave generation_history, quality_scores and *)
(* the registry as they found them, and get_templates_for_platform for a   *)
(* platform without templates returns an empty list and raises nothing.    *)
C10_PureReads ==
  /\ [][ ret'.op \in {"get_statistics", "get_available_platforms",
                      "get_templates_for_platform"}
         => /\ generation_history' = generation_history
            /\ quality_scores' = quality_scores
            /\ templates' = templates ]_vars
  /\ [](ret.op = "get_templates_for_platform"
          /\ (\A item \in RegisteredItems : item[1] # ret.args)
        => ret.raised = "none" /\ ret.value = << >>)

(* the templates of medium were asked for on an engine that holds a content *)
C10_Witness ==
  /\ ret.op = "get_templates_for_platform"
  /\ ret.args = "medium"
  /\ ret.raised = "none" /\ ret.value = << >>
  /\ Len(generation_history) = 1


(* s.count(sub): the occurrences of sub in s that do not overlap *)
RECURSIVE StrCount(_, _)
StrCount(s, sub) ==
  IF Len(s) < Len(sub) THEN 0
  ELSE IF SubSeq(s, 1, Len(sub)) = sub
       THEN 1 + StrCount(SubSeq(s, Len(sub) + 1, Len(s)), sub)
       ELSE StrCount(Tail(s), sub)

(* no key occurs twice in a dict *)
KeysDistinct(dict) ==
  \A i, j \in DOMAIN dict : dict[i].key = dict[j].key => i = j

(* what a registered template has to satisfy *)
WellFormedTemplate(template) ==
  /\ template.min_length <= template.max_length
  /\ Len(template.variables) >= 1
  /\ \A k \in DOMAIN template.variables :
       StrCount(template.prompt, <<123>> \o template.variables[k] \o <<125>>) = 1

(* C11: in every reachable state the registry is the mapping it was at     *)
(* start, no (platform, content type) pair has two templates, and every    *)
(* registered template has min_length <= max_length, at least one variable *)
(* and a prompt that holds {name} exactly once for each declared variable. *)
C11_RegistryFixedAndWellFormed ==
  /\ templates = TEMPLATES
  /\ KeysDistinct(templates)
  /\ \A i \in DOMAIN templates :
       /\ KeysDistinct(templates[i].value)
       /\ \A j \in DOMAIN templates[i].value :
            WellFormedTemplate(templates[i].value[j].value)

(* the registry after a content was generated and a read was answered *)
C11_Witness ==
  /\ Len(generation_history) = 2
  /\ ret.op = "get_templates_for_platform"
  /\ ret.args = "instagram"
  /\ "zhihu" \in DictKeys(templates)

(* the substrings of the five shapes, in the order of the tests; the last  *)
(* shape has none                                                          *)
ShapeKeys ==
  << {KeyGuideA, KeyGuideB}, {KeyMicroA, KeyMicroB}, {KeyCasual},
     {KeyNarrativeA, KeyNarrativeB}, {} >>

ShapeNames == << "guide", "micro", "casual", "narrative", "fallback" >>

(* the first shape one of whose substrings the name holds, else the last *)
FirstMatching(name) ==
  LET hits == {g \in DOMAIN ShapeKeys : \E k \in ShapeKeys[g] : Contains(k, name)}
  IN  IF hits = {} THEN Len(ShapeKeys)
      ELSE CHOOSE g \in hits : \A h \in hits : g <= h

(* the shape of each registered pair *)
CatalogShape(platform_value, content_type_value) ==
  CASE platform_value = "blog"     /\ content_type_value = "article"  -> "guide"
    [] platform_value = "twitter"  /\ content_type_value = "post"     -> "micro"
    [] platform_value = "weibo"    /\ content_type_value = "post"     -> "casual"
    [] platform_value = "linkedin" /\ content_type_value = "post"     -> "narrative"
    [] platform_value = "twitter"  /\ content_type_value = "headline" -> "fallback"
    [] platform_value = "zhihu"    /\ content_type_value = "article"  -> "fallback"

(* C12: _simulate_generation goes into the branch of the first shape, in   *)
(* the order long-form guide, micro-post, casual post, narrative           *)
(* professional post, one of whose substrings the template's name holds,   *)
(* and into the generic fallback when it holds none; for the registered    *)
(* templates this is guide for blog/article, micro for twitter/post,       *)
(* casual for weibo/post, narrative for linkedin/post and fallback for     *)
(* twitter/headline and zhihu/article; a body that is returned is the body *)
(* of that one shape.                                                      *)
C12_DispatchByName ==
  (probe.pc = "done" /\ probe.fn = "_simulate_generation") =>
    /\ probe.branch = ShapeNames[FirstMatching(probe.template.name)]
    /\ probe.template \in RegisteredTemplates =>
         probe.branch = CatalogShape(probe.template.platform, probe.template.content_type)
    /\ probe.out.raised = "none" =>
         /\ probe.out.value = FString(ShapeOf(probe.branch), probe.topic)
         /\ \A other \in {ShapeNames[g] : g \in DOMAIN ShapeNames} \ {probe.branch} :
              Compiles(ShapeOf(other)) =>
                probe.out.value # FString(ShapeOf(other), probe.topic)

(* a name that holds the substring of the casual post before that of the   *)
(* micro-post has been dispatched to the micro-post                        *)
C12_Witness ==
  /\ probe.pc = "done" /\ probe.fn = "_simulate_generation"
  /\ probe.template.name = KeyCasual \o KeyMicroA
  /\ probe.branch = "micro"
  /\ probe.out.raised = "none"

(* C13: with one caller, after any sequence of generate_content calls,     *)
(* returned or failed, generation_history and quality_scores have the same *)
(* length and the i-th score is the quality_score of the i-th content.     *)
C13_ScoresFollowHistory ==
  /\ Len(quality_scores) = Len(generation_history)
  /\ \A i \in DOMAIN generation_history :
       quality_scores[i] = generation_history[i].quality_score

(* two calls have returned, after whatever calls failed before or between  *)
(* them, and stored contents of different scores                           *)
C13_Witness ==
  /\ ret.op = "generate_content" /\ ret.raised = "none"
  /\ Len(generation_history) = 2
  /\ generation_history[1].quality_score # generation_history[2].quality_score
  /\ quality_scores[2] = ret.value.quality_score

(* two argument records agree on platform, content type and topic *)
SameRequest(a, b) ==
  /\ a.platform = b.platform
  /\ a.content_type = b.content_type
  /\ a.topic = b.topic

(* C14: tone and language do not influence a generate_content call: calls  *)
(* that agree on platform, content type and topic return contents with the *)
(* same body, tags, hashtags, quality score and variants whatever tone and *)
(* language each was given, and either all of them return or all of them   *)
(* fail, with the same error.                                              *)
C14_ToneAndLanguageIgnored ==
  /\ [](\A i, j \in DOMAIN succeeded :
          SameRequest(succeeded[i].args, succeeded[j].args) =>
            /\ generation_history[i].body = generation_history[j].body
            /\ generation_history[i].tags = generation_history[j].tags
            /\ generation_history[i].hashtags = generation_history[j].hashtags
            /\ generation_history[i].quality_score = generation_history[j].quality_score
            /\ generation_history[i].variants = generation_history[j].variants)
  /\ []((ret.op = "generate_content" /\ ret.raised # "none") =>
          \A i \in DOMAIN succeeded : ~SameRequest(succeeded[i].args, ret.args))
  /\ [][ (/\ ret.op = "generate_content" /\ ret.raised # "none"
          /\ ret'.op = "generate_content" /\ ret'.raised # "none"
          /\ SameRequest(ret.args, ret'.args))
         => (ret'.raised = ret.raised /\ ret'.value = ret.value) ]_vars

(* the same request has returned twice, once with each tone and language *)
C14_Witness ==
  /\ Len(generation_history) = 2 /\ Len(succeeded) = 2
  /\ SameRequest(succeeded[1].args, succeeded[2].args)
  /\ succeeded[1].args.tone # succeeded[2].args.tone
  /\ succeeded[1].args.language = "zh" /\ succeeded[2].args.language = "en"
  /\ generation_history[1].body = generation_history[2].body
  /\ generation_history[1].variants = generation_history[2].variants

(* the store holds every sample of init_sample_data *)
SamplesLoaded ==
  /\ api.raised = "none"
  /\ \A k \in DOMAIN Samples : Samples[k].id \in DictKeys(db.contents)

(* every stored content that is published has a published_at *)
PublishedAreStamped ==
  \A i \in DOMAIN db.contents :
    db.contents[i].value.status = "published" => db.contents[i].value.published_at # None

(* a create request that was let in has stored the content it answers     *)
(* with, as a draft without published_at                                   *)
CreateStoresDraft ==
  (ret.op = "create_content" /\ ret.value.code # 401) =>
    /\ ret.value.code = 201
    /\ DictGet(db.contents, ret.value.json.content.id, None) = ret.value.json.content
    /\ ret.value.json.content.status = "draft"
    /\ ret.value.json.content.published_at = None

(* a publish or schedule step for an id the store does not hold answers    *)
(* not-found and leaves the store as it was                                *)
UnknownIdChangesNothing ==
  [][ LET content_id == IF ret'.op = "publish_content" THEN ret'.args
                        ELSE Get(ret'.args, "content_id", None)
      IN  (/\ ret'.op \in {"publish_content", "schedule_content"}
           /\ ret'.value.code # 401
           /\ content_id \notin DictKeys(db.contents))
          => (ret'.value = NotFound /\ db' = db) ]_vars

(* C15: the API module serves from a store that holds the sample data;     *)
(* after any sequence of authenticated create, publish and schedule        *)
(* requests every stored content that is published has a published_at, a   *)
(* create has stored its content as a draft without published_at, and a    *)
(* publish or schedule for an unknown id has answered not-found and left   *)
(* every stored content as it was.                                         *)
C15_ContentStore ==
  /\ [](api.pc = "serving" => SamplesLoaded)
  /\ []PublishedAreStamped
  /\ []CreateStoresDraft
  /\ UnknownIdChangesNothing
====
